---- MODULE Spec2Model ----
(***************************************************************************)
(* Fee vault (src/src/vault.rs, src/src/rewards.rs, src/src/contract.rs):  *)
(* the share / b-token ledger with its three fee policies and the lazy     *)
(* streaming-reward index.                                                 *)
(*                                                                         *)
(* Fixed-point scales.  The contract works with 10^12 (b_rate) and 10^7    *)
(* (fee rate, reward index) and with 31536000 seconds per year.  The model *)
(* checker's integers are 32 bits wide, so the three scalars are reduced   *)
(* (SCALAR_12 = 100, SCALAR_7 = 10, SECONDS_PER_YEAR = 3, and the literal  *)
(* 100_000 = 10^12 / 10^7 of vault.rs:120 becomes 10).  Every formula is   *)
(* the code's formula, with the code's order of operations and rounding;   *)
(* only the unit of the rates and of time is coarser.  A b_rate of 110 is  *)
(* the code's 1.1 * 10^12, a fee rate of 5 is the code's 0.5 * 10^7.       *)
(*                                                                         *)
(* Every entry point runs atomically; a panic reverts every write.  The    *)
(* variable `last` records the last call that returned: its arguments, the *)
(* amounts it returned, and the rate, fee and accrual of its refresh.      *)
(*                                                                         *)
(* Spec runs every entry point, with one amount per operation; SpecVault   *)
(* runs the vault's entry points (no reward stream) over the full input    *)
(* sets.  SpecFee runs set_fee over the boundary rates, SpecUser deposits  *)
(* and withdrawals under a reward stream, SpecNoFixed the vault without    *)
(* the fixed-rate policy, SpecView the read-only entry points,             *)
(* SpecRewards the reward configuration of two tokens with one depositor,  *)
(* SpecClaim the claims of two depositors holding shares 3:1, SpecLedger   *)
(* the reward configuration together with the totals of reward tokens      *)
(* moved in and out (variable `ledger`, kept only there), SpecIndex the     *)
(* lazy index update and the per-user update from arbitrary records.       *)
(***************************************************************************)
EXTENDS Integers, FiniteSets, Sequences, TLC

\* ---------------------------------------------------------------- bounds
MaxTime == 2
MaxBTokens == 4
MaxAdmin == 2
MaxShares == 5
MaxEps == 4

\* ------------------------------------------------------ program constants
SCALAR_12 == 100
SCALAR_7 == 10
SECONDS_PER_YEAR == 3
APR_TO_12 == 10
MAX_FEE_RATE == 10
MAX_RATE_TYPE == 2
U64_MAX == 1000000

\* ----------------------------------------------------------- input sets
Users == {"u1", "u2"}
Tokens == {"tA", "tB"}
Address == Users \cup Tokens
PoolRates == {100, 150}
\* inputs of SpecVault
Amounts == {0, 2, 3, 4}
AdminAmounts == {0, 2}
RateTypes == {0, 1, 2, 3}
Rates == {5, 10, 11}
\* inputs of Spec
OneAmount == {2}
OneAdminAmount == {2}
OneFee == {[rate_type |-> 0, rate |-> 10]}
OneToken == {"tA"}
RewardAmounts == {4}
Expirations == {1}
\* inputs of the reward specifications: a rejected and an accepted amount,
\* expirations in the past, now and after the last time; one depositor for
\* the reward configuration, two depositors with shares 3:1 for the claims
SetRewardAmounts == {0, 4}
SetRewardExpirations == 0..(MaxTime + 1)
ClaimExpirations == 1..(MaxTime + 1)
\* amounts and expirations for probing the emission rate: below the period,
\* ordinary, and above the u64 maximum times the period
EpsProbeAmounts == {1, 4, U64_MAX + 1, 2 * U64_MAX + 2}
EpsProbeExpirations == SetRewardExpirations \cup {MaxTime + 4}
\* pool rates and later times offered to a refresh of the empty vault
EmptyVaultRates == PoolRates \cup {300}
EmptyVaultDelays == 0..3
\* records and total shares given to the lazy index update
IndexEps == {0, 1, 4}
IndexExpirations == 1..(MaxTime + 1)
IndexStart == {0, 7}
IndexShares == {0, 1, 3}
\* the user's record given to the per-user update: none, or an index
\* behind, level with or ahead of the token's, with or without an accrual
UserIndexes == {0, 7, 50}
UserAccrued == {0, 3}
OneUser == {"u1"}
LargeDeposit == 3
SmallDeposit == 1
\* fees offered to the constructor, and fee rates of SpecFee
ConstructorFees == {[rate_type |-> 0, rate |-> 10],
                    [rate_type |-> 0, rate |-> 11],
                    [rate_type |-> 3, rate |-> 10]}
BoundaryRates == {0, 10, 11}
\* amounts at which the properties evaluate a call in every state
ProbeAmounts == 1..5
\* amounts at which a failed withdraw is compared with the Withdraw action:
\* the amount the actions use and one above every balance
FrameAmounts == {2, 5}

VARIABLES vault, fee, shares, pool_rate, now, reward_token, reward_data,
          user_rewards, last, ledger

vars == <<vault, fee, shares, pool_rate, now, reward_token, reward_data,
          user_rewards, last, ledger>>

\* ------------------------------------------------- fixed-point arithmetic
\* soroban_fixed_point_math, for a positive divisor z: floor rounds a
\* negative quotient away from zero, ceil rounds a positive quotient up.
\* a faulty floor: truncation toward zero
div_toward_zero(r, z) ==
    IF r < 0 THEN -((-r) \div z) ELSE r \div z

div_floor(r, z) ==
    IF r < 0
    THEN -((-r) \div z) - (IF (-r) % z > 0 THEN 1 ELSE 0)
    ELSE r \div z

div_ceil(r, z) ==
    IF r <= 0
    THEN -((-r) \div z)
    ELSE (r \div z) + (IF r % z > 0 THEN 1 ELSE 0)

fixed_mul_floor(x, y, denominator) == div_floor(x * y, denominator)

fixed_mul_ceil(x, y, denominator) == div_ceil(x * y, denominator)

fixed_div_floor(x, y, denominator) == div_floor(x * denominator, y)

fixed_div_ceil(x, y, denominator) == div_ceil(x * denominator, y)

\* `/` of Rust on i128: truncation toward zero
rust_div(a, b) ==
    IF a < 0 THEN -((-a) \div b) ELSE a \div b

\* ------------------------------------------------------------- VaultData
b_tokens_to_shares_down(v, amount) ==
    IF v.total_shares = 0 \/ v.total_b_tokens = 0
    THEN amount
    ELSE fixed_mul_floor(amount, v.total_shares, v.total_b_tokens)

\* a faulty conversion: the shares to burn are rounded down
b_tokens_to_shares_up_rounded_down(v, amount) ==
    IF v.total_shares = 0 \/ v.total_b_tokens = 0
    THEN amount
    ELSE fixed_mul_floor(amount, v.total_shares, v.total_b_tokens)

b_tokens_to_shares_up(v, amount) ==
    IF v.total_shares = 0 \/ v.total_b_tokens = 0
    THEN amount
    ELSE fixed_mul_ceil(amount, v.total_shares, v.total_b_tokens)

\* a faulty conversion: rounds up
shares_to_b_tokens_rounded_up(v, amount) ==
    fixed_div_ceil(amount, v.total_shares, v.total_b_tokens)

shares_to_b_tokens_down(v, amount) ==
    fixed_div_floor(amount, v.total_shares, v.total_b_tokens)

b_tokens_to_underlying_down(v, amount) ==
    fixed_mul_floor(amount, v.b_rate, SCALAR_12)

underlying_to_b_tokens_down(v, amount) ==
    fixed_div_floor(amount, v.b_rate, SCALAR_12)

underlying_to_b_tokens_up(v, amount) ==
    fixed_div_ceil(amount, v.b_rate, SCALAR_12)

\* target rate of the capped and fixed policies
target_growth_rate(f, time_elapsed) ==
    rust_div(APR_TO_12 * f.rate * time_elapsed, SECONDS_PER_YEAR) + SCALAR_12

target_b_rate(v, f, t) ==
    fixed_mul_ceil(v.b_rate,
                   target_growth_rate(f, t - v.last_update_timestamp),
                   SCALAR_12)

\* a faulty difference: the excess of the rate over the target is not
\* weighted by the b-tokens held
b_token_diff_unweighted(v, f, new_rate, t) ==
    fixed_div_floor(new_rate - target_b_rate(v, f, t), new_rate, SCALAR_12)

b_token_diff(v, f, new_rate, t) ==
    fixed_div_floor(
        fixed_mul_floor(v.total_b_tokens, new_rate - target_b_rate(v, f, t),
                        SCALAR_12),
        new_rate, SCALAR_12)

\* a faulty take rate: the yield is divided by the new rate before the fee
\* rate is applied
take_rate_divide_first(v, f, new_rate) ==
    fixed_mul_floor(
        div_floor(v.total_b_tokens * (new_rate - v.b_rate), new_rate),
        f.rate, SCALAR_7)

take_rate_b_tokens(v, f, new_rate) ==
    fixed_div_floor(
        fixed_mul_floor(
            fixed_mul_floor(v.total_b_tokens, new_rate - v.b_rate, SCALAR_12),
            f.rate, SCALAR_7),
        new_rate, SCALAR_12)

\* a faulty fee: the capped policy is not clamped at zero
admin_b_tokens_unclamped(v, f, new_rate, t) ==
    CASE f.rate_type = 0 -> take_rate_b_tokens(v, f, new_rate)
      [] f.rate_type \in {1, 2} -> b_token_diff(v, f, new_rate, t)
      [] OTHER -> 0

admin_b_tokens(v, f, new_rate, t) ==
    CASE f.rate_type = 0 -> take_rate_b_tokens(v, f, new_rate)
      [] f.rate_type \in {1, 2} ->
            LET diff == b_token_diff(v, f, new_rate, t)
            IN  IF diff <= 0 /\ f.rate_type = 1 THEN 0 ELSE diff
      [] OTHER -> 0

\* a faulty refresh: no early return for a flat or falling rate
update_rate_unguarded(v, f, new_rate, t) ==
    LET a == admin_b_tokens(v, f, new_rate, t)
    IN  IF a = 0
        THEN [v EXCEPT !.last_update_timestamp = t, !.b_rate = new_rate]
        ELSE [v EXCEPT !.last_update_timestamp = t,
                       !.b_rate = new_rate,
                       !.total_b_tokens = v.total_b_tokens - a,
                       !.admin_balance = v.admin_balance + a]

\* a faulty refresh: the admin is credited, the depositors are not debited
update_rate_unbalanced(v, f, new_rate, t) ==
    IF new_rate <= v.b_rate
    THEN [v EXCEPT !.last_update_timestamp = t, !.b_rate = new_rate]
    ELSE LET a == admin_b_tokens(v, f, new_rate, t)
         IN  [v EXCEPT !.last_update_timestamp = t,
                       !.b_rate = new_rate,
                       !.admin_balance = v.admin_balance + a]

update_rate(v, f, new_rate, t) ==
    IF new_rate <= v.b_rate
    THEN [v EXCEPT !.last_update_timestamp = t, !.b_rate = new_rate]
    ELSE LET a == admin_b_tokens(v, f, new_rate, t)
         IN  IF a = 0
             THEN [v EXCEPT !.last_update_timestamp = t, !.b_rate = new_rate]
             ELSE [v EXCEPT !.last_update_timestamp = t,
                            !.b_rate = new_rate,
                            !.total_b_tokens = v.total_b_tokens - a,
                            !.admin_balance = v.admin_balance + a]

get_vault_updated == update_rate(vault, fee, pool_rate, now)

\* FeeVault::get_vault
get_vault == get_vault_updated

\* FeeVault::get_b_tokens
get_b_tokens(user) ==
    IF shares[user] > 0
    THEN shares_to_b_tokens_down(get_vault_updated, shares[user])
    ELSE 0

\* FeeVault::get_underlying_tokens
get_underlying_tokens(user) ==
    IF shares[user] > 0
    THEN LET v == get_vault_updated
             b_tokens == shares_to_b_tokens_down(v, shares[user])
         IN  b_tokens_to_underlying_down(v, b_tokens)
    ELSE 0

\* FeeVault::get_underlying_admin_balance
get_underlying_admin_balance ==
    LET v == get_vault_updated
    IN  b_tokens_to_underlying_down(v, v.admin_balance)

\* ---------------------------------------------------------------- storage
\* Option<RewardData> and Option<UserRewards>: `exists` is FALSE for None.
NoRewardData == [exists |-> FALSE, eps |-> 0, expiration |-> 0,
                 last_time |-> 0, index |-> 0]

NoUserRewards == [exists |-> FALSE, index |-> 0, accrued |-> 0]

\* key UserRwd(UserRewardKey { user, token }), in the order of the parameters
\* of storage::get_user_rewards / storage::set_user_rewards
get_user_rewards(ur, user, token) == ur[<<user, token>>]

storage_set_user_rewards(ur, user, token, user_data) ==
    [ur EXCEPT ![<<user, token>>] = user_data]

\* FeeVault::get_rewards: the record stored under the key (user, token)
get_rewards(ur, user, token) == get_user_rewards(ur, user, token)

\* ---------------------------------------------------------------- rewards
\* a faulty index update: the new index replaces the stored one
load_updated_reward_data_overwriting(rd, token, total_shares, t) ==
    LET d == rd[token]
    IN  IF ~d.exists THEN NoRewardData
        ELSE IF \/ d.last_time >= d.expiration
                \/ t = d.last_time
                \/ d.eps = 0
                \/ total_shares = 0
        THEN d
        ELSE LET max_timestamp == IF t > d.expiration THEN d.expiration ELSE t
                 additional_idx ==
                     fixed_div_floor((max_timestamp - d.last_time) * d.eps,
                                     total_shares, SCALAR_7)
             IN  [d EXCEPT !.index = additional_idx,
                           !.last_time = t]

\* a faulty index update: last_time is not moved to now
load_updated_reward_data_keeping_time(rd, token, total_shares, t) ==
    LET d == rd[token]
    IN  IF ~d.exists THEN NoRewardData
        ELSE IF \/ d.last_time >= d.expiration
                \/ t = d.last_time
                \/ d.eps = 0
                \/ total_shares = 0
        THEN d
        ELSE LET max_timestamp == IF t > d.expiration THEN d.expiration ELSE t
                 additional_idx ==
                     fixed_div_floor((max_timestamp - d.last_time) * d.eps,
                                     total_shares, SCALAR_7)
             IN  [d EXCEPT !.index = additional_idx + d.index]

load_updated_reward_data(rd, token, total_shares, t) ==
    LET d == rd[token]
    IN  IF ~d.exists THEN NoRewardData
        ELSE IF \/ d.last_time >= d.expiration
                \/ t = d.last_time
                \/ d.eps = 0
                \/ total_shares = 0
        THEN d
        ELSE LET max_timestamp == IF t > d.expiration THEN d.expiration ELSE t
                 additional_idx ==
                     fixed_div_floor((max_timestamp - d.last_time) * d.eps,
                                     total_shares, SCALAR_7)
             IN  [d EXCEPT !.index = additional_idx + d.index,
                           !.last_time = t]

\* the reward records after update_reward_data has stored the loaded data
update_reward_data(rd, token, total_shares, t) ==
    LET d == load_updated_reward_data(rd, token, total_shares, t)
    IN  IF d.exists THEN [rd EXCEPT ![token] = d] ELSE rd

\* a faulty claim: the accrued amount is paid and stays stored
set_user_rewards_keeping_accrued(ur, token, user, index, accrued, to_claim) ==
    [ur  |-> storage_set_user_rewards(ur, token, user,
                 [exists |-> TRUE, index |-> index, accrued |-> accrued]),
     ret |-> IF to_claim THEN accrued ELSE 0]

\* [ur |-> the user records after the call, ret |-> the returned amount]
set_user_rewards(ur, token, user, index, accrued, to_claim) ==
    IF to_claim
    THEN [ur  |-> storage_set_user_rewards(ur, token, user,
                      [exists |-> TRUE, index |-> index, accrued |-> 0]),
          ret |-> accrued]
    ELSE [ur  |-> storage_set_user_rewards(ur, token, user,
                      [exists |-> TRUE, index |-> index, accrued |-> accrued]),
          ret |-> 0]

\* a faulty accrual: a holder without a record is registered with nothing
update_user_rewards_no_history(ur, token, d, user, user_shares, to_claim) ==
    LET user_data == get_user_rewards(ur, token, user)
    IN  IF user_data.exists
        THEN IF user_data.index # d.index \/ to_claim
             THEN LET to_accrue ==
                          IF user_shares # 0 /\ d.index > user_data.index
                          THEN fixed_mul_floor(user_shares,
                                               d.index - user_data.index,
                                               SCALAR_7)
                          ELSE 0
                  IN  set_user_rewards(ur, token, user, d.index,
                                       user_data.accrued + to_accrue, to_claim)
             ELSE [ur |-> ur, ret |-> 0]
        ELSE set_user_rewards(ur, token, user, d.index, 0, to_claim)

\* a faulty update: a user index ahead of the token's index is accrued
\* as a negative amount
update_user_rewards_signed(ur, token, d, user, user_shares, to_claim) ==
    LET user_data == get_user_rewards(ur, token, user)
    IN  IF user_data.exists
        THEN IF user_data.index # d.index \/ to_claim
             THEN LET to_accrue ==
                          IF user_shares # 0
                          THEN fixed_mul_floor(user_shares,
                                               d.index - user_data.index,
                                               SCALAR_7)
                          ELSE 0
                  IN  set_user_rewards(ur, token, user, d.index,
                                       user_data.accrued + to_accrue, to_claim)
             ELSE [ur |-> ur, ret |-> 0]
        ELSE IF user_shares = 0
        THEN set_user_rewards(ur, token, user, d.index, 0, to_claim)
        ELSE set_user_rewards(ur, token, user, d.index,
                              fixed_mul_floor(user_shares, d.index, SCALAR_7),
                              to_claim)

update_user_rewards(ur, token, d, user, user_shares, to_claim) ==
    LET user_data == get_user_rewards(ur, token, user)
    IN  IF user_data.exists
        THEN IF user_data.index # d.index \/ to_claim
             THEN LET to_accrue ==
                          IF user_shares # 0 /\ d.index > user_data.index
                          THEN fixed_mul_floor(user_shares,
                                               d.index - user_data.index,
                                               SCALAR_7)
                          ELSE 0
                  IN  set_user_rewards(ur, token, user, d.index,
                                       user_data.accrued + to_accrue, to_claim)
             ELSE [ur |-> ur, ret |-> 0]
        ELSE IF user_shares = 0
        THEN set_user_rewards(ur, token, user, d.index, 0, to_claim)
        ELSE set_user_rewards(ur, token, user, d.index,
                              fixed_mul_floor(user_shares, d.index, SCALAR_7),
                              to_claim)

\* [rd, ur]: the reward records after update_rewards
update_rewards(rt, rd, ur, total_shares, user, user_shares, t) ==
    IF rt \in Tokens /\ rd[rt].exists
    THEN LET rd2 == update_reward_data(rd, rt, total_shares, t)
         IN  [rd |-> rd2,
              ur |-> update_user_rewards(ur, rt, rd2[rt], user, user_shares,
                                         FALSE).ur]
    ELSE [rd |-> rd, ur |-> ur]

\* a faulty view: the stored reward data, not advanced to the current time
get_reward_data_stored(token) == reward_data[token]

\* FeeVault::get_reward_data
get_reward_data(token) ==
    load_updated_reward_data(reward_data, token, vault.total_shares, now)

\* [err, eps]
calculate_eps_unchecked(reward_amount, reward_period) ==
    [err |-> "ok", eps |-> rust_div(reward_amount, reward_period)]

calculate_eps(reward_amount, reward_period) ==
    LET new_eps == rust_div(reward_amount, reward_period)
    IN  IF new_eps <= 0 \/ new_eps > U64_MAX
        THEN [err |-> "InvalidRewardConfig", eps |-> 0]
        ELSE [err |-> "ok", eps |-> new_eps]

\* ------------------------------------------------------- vault operations
\* Each returns [err, b_tokens, shares, vault, user_shares]: the error or
\* "ok", the returned pair, and the vault data and the caller's shares as
\* stored when the call ends (the ones it started from when it panics).
Failed(err, v0, user_shares) ==
    [err |-> err, b_tokens |-> 0, shares |-> 0, vault |-> v0,
     user_shares |-> user_shares]

\* a faulty deposit: the minted shares are not required to be positive
deposit_shares_unchecked(v0, f, rate, t, user_shares, amount) ==
    LET v == update_rate(v0, f, rate, t)
        b_tokens_amount == underlying_to_b_tokens_down(v, amount)
        share_amount == b_tokens_to_shares_down(v, b_tokens_amount)
    IN  IF b_tokens_amount <= 0
        THEN Failed("InvalidBTokensMinted", v0, user_shares)
        ELSE [err |-> "ok",
              b_tokens |-> b_tokens_amount,
              shares |-> share_amount,
              vault |-> [v EXCEPT
                  !.total_shares = v.total_shares + share_amount,
                  !.total_b_tokens = v.total_b_tokens + b_tokens_amount],
              user_shares |-> user_shares + share_amount]

\* a faulty deposit: the shares are rounded up
deposit_rounded_up(v0, f, rate, t, user_shares, amount) ==
    LET v == update_rate(v0, f, rate, t)
        b_tokens_amount == underlying_to_b_tokens_down(v, amount)
        share_amount == b_tokens_to_shares_up(v, b_tokens_amount)
    IN  IF b_tokens_amount <= 0
        THEN Failed("InvalidBTokensMinted", v0, user_shares)
        ELSE IF share_amount <= 0
        THEN Failed("InvalidSharesMinted", v0, user_shares)
        ELSE [err |-> "ok",
              b_tokens |-> b_tokens_amount,
              shares |-> share_amount,
              vault |-> [v EXCEPT
                  !.total_shares = v.total_shares + share_amount,
                  !.total_b_tokens = v.total_b_tokens + b_tokens_amount],
              user_shares |-> user_shares + share_amount]

\* a faulty deposit: the shares are credited to the caller only
deposit_uncounted(v0, f, rate, t, user_shares, amount) ==
    LET v == update_rate(v0, f, rate, t)
        b_tokens_amount == underlying_to_b_tokens_down(v, amount)
        share_amount == b_tokens_to_shares_down(v, b_tokens_amount)
    IN  IF b_tokens_amount <= 0
        THEN Failed("InvalidBTokensMinted", v0, user_shares)
        ELSE IF share_amount <= 0
        THEN Failed("InvalidSharesMinted", v0, user_shares)
        ELSE [err |-> "ok",
              b_tokens |-> b_tokens_amount,
              shares |-> share_amount,
              vault |-> [v EXCEPT
                  !.total_b_tokens = v.total_b_tokens + b_tokens_amount],
              user_shares |-> user_shares + share_amount]

deposit(v0, f, rate, t, user_shares, amount) ==
    LET v == update_rate(v0, f, rate, t)
        b_tokens_amount == underlying_to_b_tokens_down(v, amount)
        share_amount == b_tokens_to_shares_down(v, b_tokens_amount)
    IN  IF b_tokens_amount <= 0
        THEN Failed("InvalidBTokensMinted", v0, user_shares)
        ELSE IF share_amount <= 0
        THEN Failed("InvalidSharesMinted", v0, user_shares)
        ELSE [err |-> "ok",
              b_tokens |-> b_tokens_amount,
              shares |-> share_amount,
              vault |-> [v EXCEPT
                  !.total_shares = v.total_shares + share_amount,
                  !.total_b_tokens = v.total_b_tokens + b_tokens_amount],
              user_shares |-> user_shares + share_amount]

\* a faulty withdraw: the caller's share balance is not checked
withdraw_balance_unchecked(v0, f, rate, t, user_shares, amount) ==
    LET v == update_rate(v0, f, rate, t)
        b_tokens_amount == underlying_to_b_tokens_up(v, amount)
        share_amount == b_tokens_to_shares_up(v, b_tokens_amount)
    IN  IF b_tokens_amount <= 0
        THEN Failed("InvalidBTokensBurnt", v0, user_shares)
        ELSE IF share_amount <= 0
        THEN Failed("InvalidSharesBurnt", v0, user_shares)
        ELSE IF v.total_shares < share_amount
                \/ v.total_b_tokens < b_tokens_amount
        THEN Failed("InsufficientReserves", v0, user_shares)
        ELSE [err |-> "ok",
              b_tokens |-> b_tokens_amount,
              shares |-> share_amount,
              vault |-> [v EXCEPT
                  !.total_shares = v.total_shares - share_amount,
                  !.total_b_tokens = v.total_b_tokens - b_tokens_amount],
              user_shares |-> user_shares - share_amount]

withdraw(v0, f, rate, t, user_shares, amount) ==
    LET v == update_rate(v0, f, rate, t)
        b_tokens_amount == underlying_to_b_tokens_up(v, amount)
        share_amount == b_tokens_to_shares_up(v, b_tokens_amount)
    IN  IF b_tokens_amount <= 0
        THEN Failed("InvalidBTokensBurnt", v0, user_shares)
        ELSE IF share_amount <= 0
        THEN Failed("InvalidSharesBurnt", v0, user_shares)
        ELSE IF v.total_shares < share_amount
                \/ v.total_b_tokens < b_tokens_amount
        THEN Failed("InsufficientReserves", v0, user_shares)
        ELSE IF share_amount > user_shares
        THEN Failed("BalanceError", v0, user_shares)
        ELSE [err |-> "ok",
              b_tokens |-> b_tokens_amount,
              shares |-> share_amount,
              vault |-> [v EXCEPT
                  !.total_shares = v.total_shares - share_amount,
                  !.total_b_tokens = v.total_b_tokens - b_tokens_amount],
              user_shares |-> user_shares - share_amount]

admin_deposit(v0, f, rate, t, amount) ==
    LET v == update_rate(v0, f, rate, t)
        b_tokens_amount == underlying_to_b_tokens_down(v, amount)
    IN  IF b_tokens_amount <= 0
        THEN Failed("InvalidBTokensMinted", v0, 0)
        ELSE [err |-> "ok",
              b_tokens |-> b_tokens_amount,
              shares |-> 0,
              vault |-> [v EXCEPT
                  !.admin_balance = v.admin_balance + b_tokens_amount],
              user_shares |-> 0]

\* a faulty admin_withdraw: the whole balance cannot be withdrawn
admin_withdraw_strict(v0, f, rate, t, amount) ==
    LET v == update_rate(v0, f, rate, t)
        b_tokens_burnt == underlying_to_b_tokens_up(v, amount)
    IN  IF b_tokens_burnt <= 0
        THEN Failed("InvalidBTokensBurnt", v0, 0)
        ELSE IF b_tokens_burnt >= v.admin_balance
        THEN Failed("BalanceError", v0, 0)
        ELSE [err |-> "ok",
              b_tokens |-> b_tokens_burnt,
              shares |-> 0,
              vault |-> [v EXCEPT
                  !.admin_balance = v.admin_balance - b_tokens_burnt],
              user_shares |-> 0]

\* a faulty admin_withdraw: the b-tokens are taken from the depositors
admin_withdraw_from_reserves(v0, f, rate, t, amount) ==
    LET v == update_rate(v0, f, rate, t)
        b_tokens_burnt == underlying_to_b_tokens_up(v, amount)
    IN  IF b_tokens_burnt <= 0
        THEN Failed("InvalidBTokensBurnt", v0, 0)
        ELSE IF b_tokens_burnt > v.admin_balance
        THEN Failed("BalanceError", v0, 0)
        ELSE [err |-> "ok",
              b_tokens |-> b_tokens_burnt,
              shares |-> 0,
              vault |-> [v EXCEPT
                  !.total_b_tokens = v.total_b_tokens - b_tokens_burnt],
              user_shares |-> 0]

admin_withdraw(v0, f, rate, t, amount) ==
    LET v == update_rate(v0, f, rate, t)
        b_tokens_burnt == underlying_to_b_tokens_up(v, amount)
    IN  IF b_tokens_burnt <= 0
        THEN Failed("InvalidBTokensBurnt", v0, 0)
        ELSE IF b_tokens_burnt > v.admin_balance
        THEN Failed("BalanceError", v0, 0)
        ELSE [err |-> "ok",
              b_tokens |-> b_tokens_burnt,
              shares |-> 0,
              vault |-> [v EXCEPT
                  !.admin_balance = v.admin_balance - b_tokens_burnt],
              user_shares |-> 0]

\* a faulty validation: the rate type is not checked
require_valid_fee_rate_only(f) ==
    IF f.rate > MAX_FEE_RATE THEN "InvalidFeeRate" ELSE "ok"

\* require_valid_fee: the error, or "ok"
require_valid_fee(f) ==
    IF f.rate > MAX_FEE_RATE THEN "InvalidFeeRate"
    ELSE IF f.rate_type > MAX_RATE_TYPE THEN "InvalidFeeRateType"
    ELSE "ok"

\* FeeVault::__constructor: [err, vault, fee]; a panic leaves no contract
constructor(rate_type, rate, b_rate, t) ==
    LET f == [rate_type |-> rate_type, rate |-> rate]
    IN  [err   |-> require_valid_fee(f),
         fee   |-> f,
         vault |-> [last_update_timestamp |-> t, b_rate |-> b_rate,
                    total_shares |-> 0, total_b_tokens |-> 0,
                    admin_balance |-> 0]]

\* a faulty set_fee: the refresh runs under the new policy
set_fee_new_policy_first(v0, f0, rate, t, new_fee) ==
    IF require_valid_fee(new_fee) # "ok"
    THEN [err |-> require_valid_fee(new_fee), vault |-> v0, fee |-> f0]
    ELSE [err |-> "ok", vault |-> update_rate(v0, new_fee, rate, t),
          fee |-> new_fee]

\* FeeVault::set_fee: [err, vault, fee] as stored when the call ends
set_fee(v0, f0, rate, t, new_fee) ==
    IF require_valid_fee(new_fee) # "ok"
    THEN [err |-> require_valid_fee(new_fee), vault |-> v0, fee |-> f0]
    ELSE [err |-> "ok", vault |-> update_rate(v0, f0, rate, t),
          fee |-> new_fee]

\* a faulty set_rewards: a running period accepts another token
set_rewards_any_token(rt, rd, total_shares, t, token, reward_amount, expiration, wraps) ==
    LET fail(err) == [err |-> err, reward_token |-> rt, reward_data |-> rd]
        reward_period == IF expiration >= t THEN expiration - t
                         ELSE U64_MAX + 1 - (t - expiration)
        active == rt \in Tokens /\ rd[rt].exists
        rd2 == IF active THEN update_reward_data(rd, rt, total_shares, t)
               ELSE rd
    IN  IF expiration < t /\ ~wraps THEN fail("ArithmeticPanic")
        ELSE IF reward_period <= 0 \/ reward_amount <= 0
        THEN fail("InvalidRewardConfig")
        ELSE IF active /\ rd2[rt].expiration > t
        THEN IF expiration < rd2[rt].expiration
             THEN fail("InvalidRewardConfig")
             ELSE LET cur_reward_time_left == rd2[rt].expiration - t
                      to_emit_total ==
                          reward_amount + cur_reward_time_left * rd2[rt].eps
                      e == calculate_eps(to_emit_total, reward_period)
                  IN  IF e.err # "ok" THEN fail(e.err)
                      ELSE [err |-> "ok", reward_token |-> rt,
                            reward_data |-> [rd2 EXCEPT ![token] =
                                [exists |-> TRUE, eps |-> e.eps,
                                 expiration |-> expiration,
                                 last_time |-> t,
                                 index |-> rd2[rt].index]]]
        ELSE LET rd3 == update_reward_data(rd2, token, total_shares, t)
                 reward_index == IF rd3[token].exists THEN rd3[token].index
                                 ELSE 0
                 e == calculate_eps(reward_amount, reward_period)
             IN  IF e.err # "ok" THEN fail(e.err)
                 ELSE [err |-> "ok", reward_token |-> token,
                       reward_data |-> [rd3 EXCEPT ![token] =
                           [exists |-> TRUE, eps |-> e.eps,
                            expiration |-> expiration,
                            last_time |-> t,
                            index |-> reward_index]]]

\* a faulty set_rewards: a boost forgets what the running period still owes
set_rewards_dropping_leftover(rt, rd, total_shares, t, token, reward_amount, expiration, wraps) ==
    LET fail(err) == [err |-> err, reward_token |-> rt, reward_data |-> rd]
        reward_period == IF expiration >= t THEN expiration - t
                         ELSE U64_MAX + 1 - (t - expiration)
        active == rt \in Tokens /\ rd[rt].exists
        rd2 == IF active THEN update_reward_data(rd, rt, total_shares, t)
               ELSE rd
    IN  IF expiration < t /\ ~wraps THEN fail("ArithmeticPanic")
        ELSE IF reward_period <= 0 \/ reward_amount <= 0
        THEN fail("InvalidRewardConfig")
        ELSE IF active /\ rd2[rt].expiration > t
        THEN IF rt # token \/ expiration < rd2[rt].expiration
             THEN fail("InvalidRewardConfig")
             ELSE LET cur_reward_time_left == rd2[rt].expiration - t
                      to_emit_total == reward_amount
                      e == calculate_eps(to_emit_total, reward_period)
                  IN  IF e.err # "ok" THEN fail(e.err)
                      ELSE [err |-> "ok", reward_token |-> rt,
                            reward_data |-> [rd2 EXCEPT ![token] =
                                [exists |-> TRUE, eps |-> e.eps,
                                 expiration |-> expiration,
                                 last_time |-> t,
                                 index |-> rd2[rt].index]]]
        ELSE LET rd3 == update_reward_data(rd2, token, total_shares, t)
                 reward_index == IF rd3[token].exists THEN rd3[token].index
                                 ELSE 0
                 e == calculate_eps(reward_amount, reward_period)
             IN  IF e.err # "ok" THEN fail(e.err)
                 ELSE [err |-> "ok", reward_token |-> token,
                       reward_data |-> [rd3 EXCEPT ![token] =
                           [exists |-> TRUE, eps |-> e.eps,
                            expiration |-> expiration,
                            last_time |-> t,
                            index |-> reward_index]]]

\* a faulty set_rewards: a new period starts from the index of the token
\* that was active before it
set_rewards_carrying_index(rt, rd, total_shares, t, token, reward_amount, expiration, wraps) ==
    LET fail(err) == [err |-> err, reward_token |-> rt, reward_data |-> rd]
        reward_period == IF expiration >= t THEN expiration - t
                         ELSE U64_MAX + 1 - (t - expiration)
        active == rt \in Tokens /\ rd[rt].exists
        rd2 == IF active THEN update_reward_data(rd, rt, total_shares, t)
               ELSE rd
    IN  IF expiration < t /\ ~wraps THEN fail("ArithmeticPanic")
        ELSE IF reward_period <= 0 \/ reward_amount <= 0
        THEN fail("InvalidRewardConfig")
        ELSE IF active /\ rd2[rt].expiration > t
        THEN IF rt # token \/ expiration < rd2[rt].expiration
             THEN fail("InvalidRewardConfig")
             ELSE LET cur_reward_time_left == rd2[rt].expiration - t
                      to_emit_total ==
                          reward_amount + cur_reward_time_left * rd2[rt].eps
                      e == calculate_eps(to_emit_total, reward_period)
                  IN  IF e.err # "ok" THEN fail(e.err)
                      ELSE [err |-> "ok", reward_token |-> rt,
                            reward_data |-> [rd2 EXCEPT ![token] =
                                [exists |-> TRUE, eps |-> e.eps,
                                 expiration |-> expiration,
                                 last_time |-> t,
                                 index |-> rd2[rt].index]]]
        ELSE LET rd3 == update_reward_data(rd2, token, total_shares, t)
                 reward_index == IF active THEN rd3[rt].index ELSE 0
                 e == calculate_eps(reward_amount, reward_period)
             IN  IF e.err # "ok" THEN fail(e.err)
                 ELSE [err |-> "ok", reward_token |-> token,
                       reward_data |-> [rd3 EXCEPT ![token] =
                           [exists |-> TRUE, eps |-> e.eps,
                            expiration |-> expiration,
                            last_time |-> t,
                            index |-> reward_index]]]

\* a faulty set_rewards: a new period starts from index 0
set_rewards_resetting_index(rt, rd, total_shares, t, token, reward_amount, expiration, wraps) ==
    LET fail(err) == [err |-> err, reward_token |-> rt, reward_data |-> rd]
        reward_period == IF expiration >= t THEN expiration - t
                         ELSE U64_MAX + 1 - (t - expiration)
        active == rt \in Tokens /\ rd[rt].exists
        rd2 == IF active THEN update_reward_data(rd, rt, total_shares, t)
               ELSE rd
    IN  IF expiration < t /\ ~wraps THEN fail("ArithmeticPanic")
        ELSE IF reward_period <= 0 \/ reward_amount <= 0
        THEN fail("InvalidRewardConfig")
        ELSE IF active /\ rd2[rt].expiration > t
        THEN IF rt # token \/ expiration < rd2[rt].expiration
             THEN fail("InvalidRewardConfig")
             ELSE LET cur_reward_time_left == rd2[rt].expiration - t
                      to_emit_total ==
                          reward_amount + cur_reward_time_left * rd2[rt].eps
                      e == calculate_eps(to_emit_total, reward_period)
                  IN  IF e.err # "ok" THEN fail(e.err)
                      ELSE [err |-> "ok", reward_token |-> rt,
                            reward_data |-> [rd2 EXCEPT ![token] =
                                [exists |-> TRUE, eps |-> e.eps,
                                 expiration |-> expiration,
                                 last_time |-> t,
                                 index |-> rd2[rt].index]]]
        ELSE LET rd3 == update_reward_data(rd2, token, total_shares, t)
                 reward_index == 0
                 e == calculate_eps(reward_amount, reward_period)
             IN  IF e.err # "ok" THEN fail(e.err)
                 ELSE [err |-> "ok", reward_token |-> token,
                       reward_data |-> [rd3 EXCEPT ![token] =
                           [exists |-> TRUE, eps |-> e.eps,
                            expiration |-> expiration,
                            last_time |-> t,
                            index |-> reward_index]]]

\* rewards::set_rewards: [err, reward_token, reward_data] as stored when the
\* call ends.  `expiration - now` is a u64 subtraction: for an expiration in
\* the past it panics in a build with overflow checks and wraps in a build
\* without them (`wraps`).
set_rewards(rt, rd, total_shares, t, token, reward_amount, expiration, wraps) ==
    LET fail(err) == [err |-> err, reward_token |-> rt, reward_data |-> rd]
        reward_period == IF expiration >= t THEN expiration - t
                         ELSE U64_MAX + 1 - (t - expiration)
        active == rt \in Tokens /\ rd[rt].exists
        rd2 == IF active THEN update_reward_data(rd, rt, total_shares, t)
               ELSE rd
    IN  IF expiration < t /\ ~wraps THEN fail("ArithmeticPanic")
        ELSE IF reward_period <= 0 \/ reward_amount <= 0
        THEN fail("InvalidRewardConfig")
        ELSE IF active /\ rd2[rt].expiration > t
        THEN IF rt # token \/ expiration < rd2[rt].expiration
             THEN fail("InvalidRewardConfig")
             ELSE LET cur_reward_time_left == rd2[rt].expiration - t
                      to_emit_total ==
                          reward_amount + cur_reward_time_left * rd2[rt].eps
                      e == calculate_eps(to_emit_total, reward_period)
                  IN  IF e.err # "ok" THEN fail(e.err)
                      ELSE [err |-> "ok", reward_token |-> rt,
                            reward_data |-> [rd2 EXCEPT ![token] =
                                [exists |-> TRUE, eps |-> e.eps,
                                 expiration |-> expiration,
                                 last_time |-> t,
                                 index |-> rd2[rt].index]]]
        ELSE LET rd3 == update_reward_data(rd2, token, total_shares, t)
                 reward_index == IF rd3[token].exists THEN rd3[token].index
                                 ELSE 0
                 e == calculate_eps(reward_amount, reward_period)
             IN  IF e.err # "ok" THEN fail(e.err)
                 ELSE [err |-> "ok", reward_token |-> token,
                       reward_data |-> [rd3 EXCEPT ![token] =
                           [exists |-> TRUE, eps |-> e.eps,
                            expiration |-> expiration,
                            last_time |-> t,
                            index |-> reward_index]]]

\* a faulty claim: without configured rewards it returns 0
claim_rewards_unconfigured_ok(rt, rd, ur, total_shares, user, user_shares, t) ==
    IF rt \in Tokens /\ rd[rt].exists
    THEN LET rd2 == update_reward_data(rd, rt, total_shares, t)
             u == update_user_rewards(ur, rt, rd2[rt], user, user_shares,
                                      TRUE)
         IN  [err |-> "ok", amount |-> u.ret, reward_data |-> rd2,
              user_rewards |-> u.ur,
              transfers |-> IF u.ret > 0
                            THEN <<[token |-> rt, amount |-> u.ret]>>
                            ELSE <<>>]
    ELSE [err |-> "ok", amount |-> 0, reward_data |-> rd,
          user_rewards |-> ur, transfers |-> <<>>]

\* rewards::claim_rewards: [err, amount, reward_data, user_rewards,
\* transfers]; transfers are the token transfers from the vault to `to` the
\* call makes, each with its token and amount
claim_rewards(rt, rd, ur, total_shares, user, user_shares, t) ==
    IF rt \in Tokens /\ rd[rt].exists
    THEN LET rd2 == update_reward_data(rd, rt, total_shares, t)
             u == update_user_rewards(ur, rt, rd2[rt], user, user_shares,
                                      TRUE)
         IN  [err |-> "ok", amount |-> u.ret, reward_data |-> rd2,
              user_rewards |-> u.ur,
              transfers |-> IF u.ret > 0
                            THEN <<[token |-> rt, amount |-> u.ret]>>
                            ELSE <<>>]
    ELSE [err |-> "NoRewardsConfigured", amount |-> 0, reward_data |-> rd,
          user_rewards |-> ur, transfers |-> <<>>]

\* ------------------------------------------------------------ the machine
\* The record of the last step.  A call that returned: what was called, the
\* amounts it returned, and what its refresh started from and moved to the
\* admin (pre_rate, pre_fee, elapsed, accrued).  A call that panics is reverted and
\* leaves no trace; a move of the pool rate or of time is recorded as "env".
Call(op, user, token, amount, arg, b_tokens, minted) ==
    [op |-> op, user |-> user, token |-> token, amount |-> amount,
     arg |-> arg, b_tokens |-> b_tokens, shares |-> minted,
     pre_rate |-> vault.b_rate, pre_fee |-> fee,
     elapsed |-> now - vault.last_update_timestamp,
     accrued |-> IF op \in {"set_rewards", "claim_rewards"} THEN 0
                 ELSE get_vault_updated.admin_balance - vault.admin_balance]

EnvStep ==
    [op |-> "env", user |-> "none", token |-> "none", amount |-> 0,
     arg |-> 0, b_tokens |-> 0, shares |-> 0,
     pre_rate |-> vault.b_rate, pre_fee |-> fee, elapsed |-> 0,
     accrued |-> 0]

\* The reward-token accounts, kept by the specifications that start from
\* InitLedger (`on`): funded[t] is the total of token t moved into the vault
\* by set_rewards, paid[<<u, t>>] the total of t moved out by u's claims,
\* emitted[<<u, t>>] the emissions (eps per second) of t over the seconds in
\* which u held shares.
NoLedger ==
    [on |-> FALSE,
     funded |-> [t \in Tokens |-> 0],
     paid |-> [k \in Users \X Tokens |-> 0],
     emitted |-> [k \in Users \X Tokens |-> 0]]

\* set_rewards: token.transfer(admin, vault, reward_amount)
ledger_fund(l, token, reward_amount) ==
    IF l.on THEN [l EXCEPT !.funded[token] = @ + reward_amount] ELSE l

\* claim_rewards: token.transfer(vault, to, reward_amount)
ledger_pay(l, user, transfers) ==
    IF l.on /\ Len(transfers) > 0
    THEN [l EXCEPT !.paid[<<user, transfers[1].token>>] =
                       @ + transfers[1].amount]
    ELSE l

\* one second passes: each token whose period is running emits eps
ledger_tick(l) ==
    IF l.on
    THEN [l EXCEPT !.emitted =
             [k \in Users \X Tokens |->
                 l.emitted[k]
                   + IF /\ shares[k[1]] > 0
                        /\ reward_data[k[2]].exists
                        /\ reward_data[k[2]].expiration > now
                     THEN reward_data[k[2]].eps ELSE 0]]
    ELSE l

\* the model stops where a counter would leave its bound
WithinBounds(v) ==
    /\ v.total_b_tokens <= MaxBTokens
    /\ v.admin_balance <= MaxAdmin
    /\ v.total_shares <= MaxShares

\* FeeVault::__constructor: the contract exists when the constructor
\* returned; set_fee on the empty vault leads to every other valid fee
Init ==
    /\ pool_rate \in PoolRates
    /\ now = 0
    /\ \E f \in ConstructorFees :
          LET c == constructor(f.rate_type, f.rate, pool_rate, now)
          IN  c.err = "ok" /\ fee = c.fee /\ vault = c.vault
    /\ shares = [u \in Users |-> 0]
    /\ reward_token = "none"
    /\ reward_data = [t \in Tokens |-> NoRewardData]
    /\ user_rewards = [k \in Address \X Address |-> NoUserRewards]
    /\ last = [op |-> "constructor", user |-> "none", token |-> "none",
               amount |-> fee.rate, arg |-> fee.rate_type, b_tokens |-> 0,
               shares |-> 0, pre_rate |-> pool_rate, pre_fee |-> fee,
               elapsed |-> 0, accrued |-> 0]
    /\ ledger = NoLedger

\* the same state, with the reward-token accounts at zero and kept
InitLedger ==
    /\ pool_rate \in PoolRates
    /\ now = 0
    /\ \E f \in ConstructorFees :
          LET c == constructor(f.rate_type, f.rate, pool_rate, now)
          IN  c.err = "ok" /\ fee = c.fee /\ vault = c.vault
    /\ shares = [u \in Users |-> 0]
    /\ reward_token = "none"
    /\ reward_data = [t \in Tokens |-> NoRewardData]
    /\ user_rewards = [k \in Address \X Address |-> NoUserRewards]
    /\ last = [op |-> "constructor", user |-> "none", token |-> "none",
               amount |-> fee.rate, arg |-> fee.rate_type, b_tokens |-> 0,
               shares |-> 0, pre_rate |-> pool_rate, pre_fee |-> fee,
               elapsed |-> 0, accrued |-> 0]
    /\ ledger = [NoLedger EXCEPT !.on = TRUE]

\* a vault holding some shares, with a reward record of token tA written at
\* or before now and any record for the holder: the inputs of the lazy
\* index update and of the per-user update
InitIndex ==
    /\ pool_rate \in PoolRates
    /\ now \in 0..MaxTime
    /\ fee = [rate_type |-> 0, rate |-> 0]
    /\ \E held \in IndexShares :
          /\ shares = [u \in Users |-> IF u = "u1" THEN held ELSE 0]
          /\ vault = [total_shares |-> held, total_b_tokens |-> held,
                      b_rate |-> pool_rate, last_update_timestamp |-> now,
                      admin_balance |-> 0]
    /\ reward_token = "tA"
    /\ \E eps \in IndexEps, x \in IndexExpirations, lt \in 0..now, i \in IndexStart :
          reward_data = [t \in Tokens |->
              IF t = "tA"
              THEN [exists |-> TRUE, eps |-> eps, expiration |-> x,
                    last_time |-> lt, index |-> i]
              ELSE NoRewardData]
    /\ \E user_data \in {NoUserRewards} \cup
                         [exists : {TRUE}, index : UserIndexes,
                          accrued : UserAccrued] :
          user_rewards = storage_set_user_rewards(
                             [k \in Address \X Address |-> NoUserRewards],
                             "tA", "u1", user_data)
    /\ last = EnvStep
    /\ ledger = NoLedger

\* a faulty deposit: the rewards are updated with the shares after the mint
Deposit_rewards_after_mint(user, amount) ==
    LET r == IF amount <= 0
             THEN Failed("InvalidAmount", vault, shares[user])
             ELSE deposit(vault, fee, pool_rate, now, shares[user], amount)
        rw == update_rewards(reward_token, reward_data, user_rewards,
                             r.vault.total_shares, user, r.user_shares, now)
    IN  IF r.err # "ok" THEN UNCHANGED vars
        ELSE /\ WithinBounds(r.vault)
             /\ last' = Call("deposit", user, "none", amount, 0,
                             r.b_tokens, r.shares)
             /\ vault' = r.vault
             /\ shares' = [shares EXCEPT ![user] = r.user_shares]
             /\ reward_data' = rw.rd
             /\ user_rewards' = rw.ur
             /\ UNCHANGED <<fee, pool_rate, now, reward_token, ledger>>

\* FeeVault::deposit
Deposit(user, amount) ==
    LET r == IF amount <= 0
             THEN Failed("InvalidAmount", vault, shares[user])
             ELSE deposit(vault, fee, pool_rate, now, shares[user], amount)
        rw == update_rewards(reward_token, reward_data, user_rewards,
                             get_vault_updated.total_shares, user,
                             shares[user], now)
    IN  IF r.err # "ok" THEN UNCHANGED vars
        ELSE /\ WithinBounds(r.vault)
             /\ last' = Call("deposit", user, "none", amount, 0,
                             r.b_tokens, r.shares)
             /\ vault' = r.vault
             /\ shares' = [shares EXCEPT ![user] = r.user_shares]
             /\ reward_data' = rw.rd
             /\ user_rewards' = rw.ur
             /\ UNCHANGED <<fee, pool_rate, now, reward_token, ledger>>

\* FeeVault::withdraw
Withdraw(user, amount) ==
    LET r == IF amount <= 0
             THEN Failed("InvalidAmount", vault, shares[user])
             ELSE withdraw(vault, fee, pool_rate, now, shares[user], amount)
        rw == update_rewards(reward_token, reward_data, user_rewards,
                             get_vault_updated.total_shares, user,
                             shares[user], now)
    IN  IF r.err # "ok" THEN UNCHANGED vars
        ELSE /\ WithinBounds(r.vault)
             /\ last' = Call("withdraw", user, "none", amount, 0,
                             r.b_tokens, r.shares)
             /\ vault' = r.vault
             /\ shares' = [shares EXCEPT ![user] = r.user_shares]
             /\ reward_data' = rw.rd
             /\ user_rewards' = rw.ur
             /\ UNCHANGED <<fee, pool_rate, now, reward_token, ledger>>

\* FeeVault::admin_deposit
AdminDeposit(amount) ==
    LET r == IF amount <= 0
             THEN Failed("InvalidAmount", vault, 0)
             ELSE admin_deposit(vault, fee, pool_rate, now, amount)
    IN  IF r.err # "ok" THEN UNCHANGED vars
        ELSE /\ WithinBounds(r.vault)
             /\ last' = Call("admin_deposit", "none", "none", amount, 0,
                             r.b_tokens, 0)
             /\ vault' = r.vault
             /\ UNCHANGED <<fee, shares, pool_rate, now, reward_token,
                            reward_data, user_rewards, ledger>>

\* FeeVault::admin_withdraw
AdminWithdraw(amount) ==
    LET r == IF amount <= 0
             THEN Failed("InvalidAmount", vault, 0)
             ELSE admin_withdraw(vault, fee, pool_rate, now, amount)
    IN  IF r.err # "ok" THEN UNCHANGED vars
        ELSE /\ WithinBounds(r.vault)
             /\ last' = Call("admin_withdraw", "none", "none", amount, 0,
                             r.b_tokens, 0)
             /\ vault' = r.vault
             /\ UNCHANGED <<fee, shares, pool_rate, now, reward_token,
                            reward_data, user_rewards, ledger>>

\* the record of a read-only call: what was asked and what it returned
View(op, user, token, ret) ==
    /\ last' = [op |-> op, user |-> user, token |-> token, ret |-> ret]
    /\ UNCHANGED <<vault, fee, shares, pool_rate, now, reward_token,
                   reward_data, user_rewards, ledger>>

GetVault == View("get_vault", "none", "none", get_vault)

GetBTokens(user) == View("get_b_tokens", user, "none", get_b_tokens(user))

GetUnderlyingTokens(user) == View("get_underlying_tokens", user, "none", get_underlying_tokens(user))

GetUnderlyingAdminBalance == View("get_underlying_admin_balance", "none", "none", get_underlying_admin_balance)

GetRewardData(token) == View("get_reward_data", "none", token, get_reward_data(token))

\* FeeVault::set_fee
SetFee(rate_type, rate) ==
    LET r == set_fee(vault, fee, pool_rate, now,
                     [rate_type |-> rate_type, rate |-> rate])
    IN  IF r.err # "ok" THEN UNCHANGED vars
        ELSE /\ WithinBounds(r.vault)
             /\ last' = Call("set_fee", "none", "none", rate, rate_type,
                             0, 0)
             /\ vault' = r.vault
             /\ fee' = r.fee
             /\ UNCHANGED <<shares, pool_rate, now, reward_token,
                            reward_data, user_rewards, ledger>>

\* FeeVault::set_rewards
SetRewards(token, reward_amount, expiration, wraps) ==
    LET r == set_rewards(reward_token, reward_data, vault.total_shares, now,
                         token, reward_amount, expiration, wraps)
    IN  IF r.err # "ok" THEN UNCHANGED vars
        ELSE /\ r.reward_data[token].eps <= MaxEps
             /\ last' = Call("set_rewards", "none", token, reward_amount,
                             expiration, 0, 0)
             /\ reward_token' = r.reward_token
             /\ reward_data' = r.reward_data
             /\ ledger' = ledger_fund(ledger, token, reward_amount)
             /\ UNCHANGED <<vault, fee, shares, pool_rate, now,
                            user_rewards>>

\* FeeVault::claim_rewards; b_tokens of the call record holds the amount
\* transferred to `to`
ClaimRewards(user, token) ==
    LET r == claim_rewards(reward_token, reward_data, user_rewards,
                           vault.total_shares, user, shares[user], now)
    IN  IF r.err # "ok" THEN UNCHANGED vars
        ELSE /\ last' = Call("claim_rewards", user, token, 0, 0,
                             r.amount, 0) @@ [transfers |-> r.transfers]
             /\ reward_data' = r.reward_data
             /\ user_rewards' = r.user_rewards
             /\ ledger' = ledger_pay(ledger, user, r.transfers)
             /\ UNCHANGED <<vault, fee, shares, pool_rate, now,
                            reward_token>>

\* the pool's b_rate moves
SetPoolRate(rate) ==
    /\ rate # pool_rate
    /\ pool_rate' = rate
    /\ last' = EnvStep
    /\ UNCHANGED <<vault, fee, shares, now, reward_token, reward_data,
                   user_rewards, ledger>>

\* ledger time passes
AdvanceTime ==
    /\ now < MaxTime
    /\ now' = now + 1
    /\ last' = EnvStep
    /\ ledger' = ledger_tick(ledger)
    /\ UNCHANGED <<vault, fee, shares, pool_rate, reward_token, reward_data,
                   user_rewards>>

Next ==
    \/ \E u \in Users, a \in OneAmount : Deposit(u, a)
    \/ \E u \in Users, a \in OneAmount : Withdraw(u, a)
    \/ \E a \in OneAdminAmount : AdminDeposit(a)
    \/ \E a \in OneAdminAmount : AdminWithdraw(a)
    \/ \E f \in OneFee : SetFee(f.rate_type, f.rate)
    \/ \E token \in OneToken, a \in RewardAmounts, x \in Expirations,
          wraps \in BOOLEAN : SetRewards(token, a, x, wraps)
    \/ \E u \in Users, token \in OneToken : ClaimRewards(u, token)
    \/ \E rate \in PoolRates : SetPoolRate(rate)
    \/ AdvanceTime

Spec == Init /\ [][Next]_vars

\* the vault's entry points, the pool rate and time, over the full input sets
NextVault ==
    \/ \E u \in Users, a \in Amounts : Deposit(u, a)
    \/ \E u \in Users, a \in Amounts : Withdraw(u, a)
    \/ \E a \in AdminAmounts : AdminDeposit(a)
    \/ \E a \in AdminAmounts : AdminWithdraw(a)
    \/ \E rate_type \in RateTypes, rate \in Rates : SetFee(rate_type, rate)
    \/ \E rate \in PoolRates : SetPoolRate(rate)
    \/ AdvanceTime

SpecVault == Init /\ [][NextVault]_vars

\* fee changes over the boundary rates, around deposits and a moving pool
NextFee ==
    \/ \E rate_type \in RateTypes, rate \in BoundaryRates :
          SetFee(rate_type, rate)
    \/ \E u \in Users, a \in OneAmount : Deposit(u, a)
    \/ \E rate \in PoolRates : SetPoolRate(rate)
    \/ AdvanceTime

SpecFee == Init /\ [][NextFee]_vars

\* the users' entry points on a vault that is switched to the fixed rate,
\* with a reward stream
NextUser ==
    \/ \E u \in Users, a \in OneAmount : Deposit(u, a)
    \/ \E u \in Users, a \in OneAmount : Withdraw(u, a)
    \/ SetFee(2, MAX_FEE_RATE)
    \/ \E token \in OneToken, a \in RewardAmounts, x \in Expirations :
          SetRewards(token, a, x, FALSE)
    \/ \E rate \in PoolRates : SetPoolRate(rate)
    \/ AdvanceTime

SpecUser == Init /\ [][NextUser]_vars

\* the executions in which the fee policy is never FixedRate: the vault's
\* entry points with set_fee restricted to TakeRate, CappedRate and the
\* invalid rate type
NextNoFixed ==
    \/ \E u \in Users, a \in Amounts : Deposit(u, a)
    \/ \E u \in Users, a \in Amounts : Withdraw(u, a)
    \/ \E a \in AdminAmounts : AdminDeposit(a)
    \/ \E a \in AdminAmounts : AdminWithdraw(a)
    \/ \E rate_type \in RateTypes \ {2}, rate \in Rates :
          SetFee(rate_type, rate)
    \/ \E rate \in PoolRates : SetPoolRate(rate)
    \/ AdvanceTime

SpecNoFixed == Init /\ [][NextNoFixed]_vars

\* the read-only entry points, around deposits and withdrawals in a vault
\* with a reward stream, a moving pool rate and passing time
NextView ==
    \/ \E u \in Users, a \in OneAmount : Deposit(u, a)
    \/ \E u \in Users, a \in OneAmount : Withdraw(u, a)
    \/ \E token \in OneToken, a \in RewardAmounts, x \in Expirations :
          SetRewards(token, a, x, FALSE)
    \/ \E rate \in PoolRates : SetPoolRate(rate)
    \/ AdvanceTime
    \/ GetVault
    \/ \E u \in Users : GetBTokens(u)
    \/ \E u \in Users : GetUnderlyingTokens(u)
    \/ GetUnderlyingAdminBalance
    \/ \E token \in Tokens : GetRewardData(token)

SpecView == Init /\ [][NextView]_vars

\* the reward configuration: set_rewards and claim_rewards over both tokens,
\* around the deposits and withdrawals of one user, with passing time
NextRewards ==
    \/ \E u \in OneUser : Deposit(u, LargeDeposit)
    \/ \E u \in OneUser : Withdraw(u, SmallDeposit)
    \/ \E token \in Tokens, a \in SetRewardAmounts, x \in SetRewardExpirations,
          wraps \in BOOLEAN : SetRewards(token, a, x, wraps)
    \/ \E u \in OneUser, token \in Tokens : ClaimRewards(u, token)
    \/ AdvanceTime

SpecRewards == Init /\ [][NextRewards]_vars

\* claims of one reward token by two depositors who hold shares 3:1
NextClaim ==
    \/ Deposit("u1", LargeDeposit)
    \/ Deposit("u2", SmallDeposit)
    \/ Withdraw("u1", SmallDeposit)
    \/ \E token \in OneToken, a \in RewardAmounts, x \in ClaimExpirations :
          SetRewards(token, a, x, FALSE)
    \/ \E u \in Users, token \in OneToken : ClaimRewards(u, token)
    \/ AdvanceTime

SpecClaim == Init /\ [][NextClaim]_vars

\* the reward-token accounts: one depositor, two tokens replacing each other
NextLedger ==
    \/ Deposit("u1", LargeDeposit)
    \/ Withdraw("u1", SmallDeposit)
    \/ \E token \in Tokens, a \in RewardAmounts, x \in ClaimExpirations :
          SetRewards(token, a, x, FALSE)
    \/ \E u \in OneUser : reward_token \in Tokens /\ ClaimRewards(u, reward_token)
    \/ AdvanceTime

SpecLedger == InitLedger /\ [][NextLedger]_vars

\* rewards::update_reward_data, the lazy index update every entry point
\* starts with, on its own
UpdateRewardData ==
    /\ reward_data' = update_reward_data(reward_data, reward_token,
                                         vault.total_shares, now)
    /\ last' = Call("update_reward_data", "none", reward_token, 0, 0, 0, 0)
    /\ UNCHANGED <<vault, fee, shares, pool_rate, now, reward_token,
                   user_rewards, ledger>>

\* rewards::update_rewards, as deposit and withdraw call it
UpdateRewards(user) ==
    LET rw == update_rewards(reward_token, reward_data, user_rewards,
                             vault.total_shares, user, shares[user], now)
    IN  /\ reward_data' = rw.rd
        /\ user_rewards' = rw.ur
        /\ last' = Call("update_rewards", user, reward_token, 0, 0, 0, 0)
        /\ UNCHANGED <<vault, fee, shares, pool_rate, now, reward_token,
                       ledger>>

NextIndex ==
    \/ UpdateRewardData
    \/ \E u \in OneUser : UpdateRewards(u)
    \/ AdvanceTime

SpecIndex == InitIndex /\ [][NextIndex]_vars

\* ============================================================ properties
RECURSIVE SumOver(_, _)
SumOver(f, S) ==
    IF S = {} THEN 0
    ELSE LET x == CHOOSE y \in S : TRUE
         IN  f[x] + SumOver(f, S \ {x})

\* C1: in every reachable state the shares of all users add up to
\* total_shares, whatever sequence of deposits, withdrawals, admin
\* operations, fee changes, reward operations, pool-rate moves and time steps
\* led there.
C1_SharesConserved == SumOver(shares, Users) = vault.total_shares

\* both users hold shares after a withdrawal, with a reward stream configured
C1_Witness ==
    /\ last.op = "withdraw"
    /\ \A u \in Users : shares[u] > 0
    /\ reward_token \in Tokens

\* C2: on the refreshed vault, the b-tokens reported by get_b_tokens for all
\* users with a positive share balance add up to at most total_b_tokens.
C2_BTokensCovered ==
    SumOver([u \in Users |-> get_b_tokens(u)], Users)
        <= get_vault_updated.total_b_tokens

\* both users hold shares, the refresh moves b-tokens, and rounding leaves a
\* remainder
C2_Witness ==
    /\ \A u \in Users : shares[u] > 0 /\ get_b_tokens(u) > 0
    /\ get_vault_updated.total_b_tokens # vault.total_b_tokens
    /\ SumOver([u \in Users |-> get_b_tokens(u)], Users)
           < get_vault_updated.total_b_tokens

\* the vault as the refresh of the current call finds it and leaves it
Refreshed == get_vault_updated

C4_NoExtraction ==
    [][(/\ last.op = "deposit"
        /\ shares[last.user] = last.shares
        /\ last'.op = "withdraw"
        /\ last'.user = last.user) => last'.amount <= last.amount]_vars

\* C5: a refresh that finds the pool rate at or below the stored b_rate sets
\* b_rate and last_update_timestamp and nothing else, under every fee policy.
C5_FallingRateFrame ==
    pool_rate <= vault.b_rate =>
        Refreshed = [vault EXCEPT !.b_rate = pool_rate,
                                  !.last_update_timestamp = now]

\* a refresh under the fixed policy lowered the rate after time had passed,
\* and the admin keeps an accrued balance
C5_Witness ==
    /\ last.op = "set_fee"
    /\ last.pre_fee.rate_type = 2
    /\ last.pre_rate > vault.b_rate
    /\ last.elapsed > 0
    /\ vault.admin_balance > 0
    /\ vault.total_b_tokens > 0

\* C6: every refresh leaves total_shares and total_b_tokens + admin_balance
\* as they were.
C6_RefreshConserves ==
    /\ Refreshed.total_shares = vault.total_shares
    /\ Refreshed.total_b_tokens + Refreshed.admin_balance
          = vault.total_b_tokens + vault.admin_balance

\* a refresh has moved b-tokens from the admin to the depositors
C6_Witness ==
    /\ last.op \in {"deposit", "withdraw", "set_fee"}
    /\ last.accrued < 0
    /\ vault.total_shares > 0

\* the take-rate fee as C7 writes it
take_rate_as_stated(v, f, new_rate) ==
    (((v.total_b_tokens * (new_rate - v.b_rate)) \div new_rate) * f.rate)
        \div SCALAR_7

\* the take-rate fee in the order of the floors of update_rate
take_rate_in_code_order(v, f, new_rate) ==
    (((((v.total_b_tokens * (new_rate - v.b_rate)) \div SCALAR_12) * f.rate)
        \div SCALAR_7) * SCALAR_12) \div new_rate

\* C7 as stated: under the take rate a refresh that finds a higher pool rate
\* moves floor(floor(total_b_tokens * (pool_rate - b_rate) / pool_rate)
\* * rate / 10^7) b-tokens to the admin.
C7_TakeRateAsStated ==
    (fee.rate_type = 0 /\ pool_rate > vault.b_rate) =>
        /\ Refreshed.admin_balance
             = vault.admin_balance + take_rate_as_stated(vault, fee, pool_rate)
        /\ Refreshed.total_b_tokens
             = vault.total_b_tokens - take_rate_as_stated(vault, fee, pool_rate)

\* C7, amended: the amount moved is floor(floor(floor(total_b_tokens *
\* (pool_rate - b_rate) / 10^12) * rate / 10^7) * 10^12 / pool_rate).
C7_TakeRateInCodeOrder ==
    (fee.rate_type = 0 /\ pool_rate > vault.b_rate) =>
        /\ Refreshed.admin_balance
             = vault.admin_balance
                  + take_rate_in_code_order(vault, fee, pool_rate)
        /\ Refreshed.total_b_tokens
             = vault.total_b_tokens
                  - take_rate_in_code_order(vault, fee, pool_rate)

\* a take-rate refresh has charged a fee on a risen rate
C7_Witness ==
    /\ last.op \in {"deposit", "withdraw", "set_fee"}
    /\ last.pre_fee.rate_type = 0
    /\ last.pre_rate < vault.b_rate
    /\ last.accrued > 0

\* C8: under the capped rate a refresh never lowers admin_balance and never
\* raises total_b_tokens; when the pool rate rose without exceeding the target
\* rate, only b_rate and last_update_timestamp change.
C8_CappedNeverSupplements ==
    fee.rate_type = 1 =>
        /\ Refreshed.admin_balance >= vault.admin_balance
        /\ Refreshed.total_b_tokens <= vault.total_b_tokens
        /\ (pool_rate > vault.b_rate
              /\ pool_rate <= target_b_rate(vault, fee, now)) =>
               Refreshed = [vault EXCEPT !.b_rate = pool_rate,
                                         !.last_update_timestamp = now]

\* a capped refresh of a funded vault found the pool rate risen, but below
\* the target of a full rate over two seconds, and charged nothing
C8_Witness ==
    /\ last.op \in {"deposit", "withdraw", "set_fee"}
    /\ last.pre_fee = [rate_type |-> 1, rate |-> MAX_FEE_RATE]
    /\ last.pre_rate < vault.b_rate
    /\ last.elapsed = 2
    /\ vault.b_rate < target_growth_rate(last.pre_fee, last.elapsed)
    /\ last.accrued = 0
    /\ vault.total_b_tokens > last.b_tokens

CeilDiv(a, b) == (a + b - 1) \div b

\* the b-tokens missing for the depositors to earn the target rate
shortfall(v, f, new_rate, t) ==
    CeilDiv(CeilDiv(v.total_b_tokens * (target_b_rate(v, f, t) - new_rate),
                    SCALAR_12) * SCALAR_12,
            new_rate)

\* C9: under the fixed rate, when the pool rate rose but stays below the
\* target rate, a refresh moves the shortfall from admin_balance (which may
\* become negative) to total_b_tokens; the shortfall is rounded away from
\* zero, so that a funded vault costs the admin at least one unit.
C9_FixedRateSupplement ==
    (/\ fee.rate_type = 2
     /\ pool_rate > vault.b_rate
     /\ pool_rate < target_b_rate(vault, fee, now)) =>
        /\ Refreshed.admin_balance
              = vault.admin_balance - shortfall(vault, fee, pool_rate, now)
        /\ Refreshed.total_b_tokens
              = vault.total_b_tokens + shortfall(vault, fee, pool_rate, now)
        /\ vault.total_b_tokens > 0 =>
              shortfall(vault, fee, pool_rate, now) >= 1

\* a fixed-rate refresh has taken a shortfall of less than one b-token from
\* an admin with nothing accrued, leaving the balance negative
C9_Witness ==
    /\ last.op \in {"deposit", "withdraw", "set_fee"}
    /\ last.pre_fee.rate_type = 2
    /\ last.pre_rate < vault.b_rate
    /\ last.accrued = -1
    /\ vault.admin_balance = -1

\* C10: set_fee stores the vault refreshed under the policy in force before
\* the call, and the new policy.
C10_SetFeeRefreshesUnderOldPolicy ==
    [][last'.op = "set_fee" =>
          /\ vault' = update_rate(vault, fee, pool_rate, now)
          /\ fee' = [rate_type |-> last'.arg, rate |-> last'.amount]]_vars

\* set_fee changed the kind of policy and its refresh moved b-tokens
C10_Witness ==
    /\ last.op = "set_fee"
    /\ last.pre_fee.rate_type # fee.rate_type
    /\ last.accrued # 0
    /\ last.pre_rate < vault.b_rate

\* C11: the constructor and set_fee reject a rate above 10^7 with
\* InvalidFeeRate and a rate type above 2 with InvalidFeeRateType (the rate
\* is checked first) and store nothing; the stored fee always has a rate
\* type in {0, 1, 2} and a rate in [0, 10^7]; the rates 0 and 10^7 are
\* accepted.
C11_FeeValidated ==
    /\ fee.rate_type \in 0..2
    /\ fee.rate \in 0..MAX_FEE_RATE
    /\ \A rate_type \in RateTypes, rate \in BoundaryRates :
          LET f == [rate_type |-> rate_type, rate |-> rate]
              s == set_fee(vault, fee, pool_rate, now, f)
              c == constructor(rate_type, rate, pool_rate, now)
              expected == IF rate > MAX_FEE_RATE THEN "InvalidFeeRate"
                          ELSE IF rate_type > 2 THEN "InvalidFeeRateType"
                          ELSE "ok"
          IN  /\ s.err = expected
              /\ c.err = expected
              /\ expected # "ok" => s.vault = vault /\ s.fee = fee
              /\ expected = "ok" => s.fee = f /\ c.fee = f

\* set_fee has stored the rate 0, and a refresh that moves b-tokens is due,
\* so that a rejected set_fee in this state has a refresh to discard
C11_Witness ==
    /\ fee.rate = 0
    /\ fee.rate_type = 2
    /\ vault.total_b_tokens > 0
    /\ Refreshed.total_b_tokens # vault.total_b_tokens

\* the reward records a call of `user` would write before it converts
RewardsTouched(user) ==
    update_rewards(reward_token, reward_data, user_rewards,
                   Refreshed.total_shares, user, shares[user], now)

\* C12: a deposit fails with InvalidBTokensMinted when the b-tokens, rounded
\* down, are not positive, and with InvalidSharesMinted when the shares,
\* rounded down, are not positive; a failed deposit leaves the vault data,
\* the user's shares and the reward records as they were.
C12_DepositRejectsDust ==
    \A u \in Users, a \in ProbeAmounts :
        LET b == underlying_to_b_tokens_down(Refreshed, a)
            s == b_tokens_to_shares_down(Refreshed, b)
            r == deposit(vault, fee, pool_rate, now, shares[u], a)
        IN  /\ b <= 0 => r.err = "InvalidBTokensMinted"
            /\ (b > 0 /\ s <= 0) => r.err = "InvalidSharesMinted"
            /\ (b > 0 /\ s > 0) => r.err = "ok"
            /\ r.err # "ok" =>
                   /\ r.vault = vault
                   /\ r.user_shares = shares[u]
                   /\ ~ENABLED (Deposit(u, a) /\ vars' # vars)

\* a deposit that converts to one b-token and no share, in a state where
\* the call had a refresh and a reward update to write before it failed
C12_Witness ==
    \E u \in Users, a \in ProbeAmounts :
        /\ deposit(vault, fee, pool_rate, now, shares[u], a).err
              = "InvalidSharesMinted"
        /\ Refreshed.total_b_tokens # vault.total_b_tokens
        /\ RewardsTouched(u).rd # reward_data
        /\ RewardsTouched(u).ur # user_rewards

\* C13: a withdraw fails with InsufficientReserves when the shares or the
\* b-tokens, rounded up, exceed the vault's totals, and with BalanceError when
\* the totals suffice but the shares exceed the caller's balance; a failed
\* withdraw changes no state, a successful one lowers total_shares,
\* total_b_tokens and the caller's shares by the returned amounts.
C13_WithdrawChecks ==
    \A u \in Users, a \in ProbeAmounts :
        LET v == Refreshed
            b == underlying_to_b_tokens_up(v, a)
            s == b_tokens_to_shares_up(v, b)
            r == withdraw(vault, fee, pool_rate, now, shares[u], a)
        IN  /\ (s > v.total_shares \/ b > v.total_b_tokens) =>
                   r.err = "InsufficientReserves"
            /\ (s <= v.total_shares /\ b <= v.total_b_tokens
                   /\ s > shares[u]) => r.err = "BalanceError"
            /\ r.err # "ok" =>
                   /\ r.vault = vault
                   /\ r.user_shares = shares[u]
                   /\ a \in FrameAmounts =>
                          ~ENABLED (Withdraw(u, a) /\ vars' # vars)
            /\ r.err = "ok" =>
                   /\ r.b_tokens = b /\ r.shares = s
                   /\ r.vault = [v EXCEPT
                          !.total_shares = v.total_shares - s,
                          !.total_b_tokens = v.total_b_tokens - b]
                   /\ r.user_shares = shares[u] - s

\* one user can withdraw one amount, exceeds their own balance with a
\* second and the vault's reserves with a third, where the call has a
\* refresh and a reward update to write first
C13_Witness ==
    \E u \in Users, a1, a2, a3 \in ProbeAmounts :
        /\ withdraw(vault, fee, pool_rate, now, shares[u], a1).err = "ok"
        /\ withdraw(vault, fee, pool_rate, now, shares[u], a2).err
              = "BalanceError"
        /\ withdraw(vault, fee, pool_rate, now, shares[u], a3).err
              = "InsufficientReserves"
        /\ Refreshed.total_b_tokens # vault.total_b_tokens
        /\ RewardsTouched(u).rd # reward_data

\* C14: a withdraw of more than the caller's underlying balance succeeds and
\* burns all of the caller's shares, leaving 0 (the code rejects it).
C14_OverWithdrawTakesFullBalance ==
    \A u \in Users, a \in ProbeAmounts :
        (shares[u] > 0 /\ a > get_underlying_tokens(u)) =>
            LET r == withdraw(vault, fee, pool_rate, now, shares[u], a)
            IN  /\ r.err = "ok"
                /\ r.shares = shares[u]
                /\ r.user_shares = 0

\* C15: in every reachable state a user whose view balance
\* get_underlying_tokens(user) is positive can withdraw exactly that amount
\* at the same pool rate and time: the shares required do not exceed the
\* user's shares and the b-tokens burnt do not exceed
\* shares_to_b_tokens_down(user shares).
C15_ViewBalanceWithdrawable ==
    \A u \in Users :
        LET balance == get_underlying_tokens(u)
            r == withdraw(vault, fee, pool_rate, now, shares[u], balance)
        IN  balance > 0 =>
                /\ r.err = "ok"
                /\ r.shares <= shares[u]
                /\ r.b_tokens <= shares_to_b_tokens_down(Refreshed, shares[u])
                /\ r.user_shares >= 0

\* a state where the view balance is worth less than the user's shares: the
\* refresh accrues, the balance is positive and its withdrawal leaves shares
C15_Witness ==
    \E u \in Users :
        LET balance == get_underlying_tokens(u)
            r == withdraw(vault, fee, pool_rate, now, shares[u], balance)
        IN  /\ balance > 0
            /\ Refreshed.total_b_tokens # vault.total_b_tokens
            /\ r.shares < shares[u]
            /\ \E w \in Users : w # u /\ shares[w] > 0

\* C16: admin_deposit and admin_withdraw never change total_shares, any
\* user's shares or any reward record, and change total_b_tokens only by the
\* fee accrual of their initial refresh; the converted b-token amount
\* (rounded down for a deposit, up for a withdrawal) is added to or taken
\* from admin_balance only.
C16_AdminOpsTouchAdminBalanceOnly ==
    [][last'.op \in {"admin_deposit", "admin_withdraw"} =>
          LET v == Refreshed
              converted ==
                  IF last'.op = "admin_deposit"
                  THEN underlying_to_b_tokens_down(v, last'.amount)
                  ELSE -underlying_to_b_tokens_up(v, last'.amount)
          IN  /\ vault'.total_shares = vault.total_shares
              /\ shares' = shares
              /\ reward_data' = reward_data
              /\ user_rewards' = user_rewards
              /\ reward_token' = reward_token
              /\ vault'.total_b_tokens = v.total_b_tokens
              /\ vault'.admin_balance = v.admin_balance + converted
              /\ vault' = [v EXCEPT !.admin_balance = @ + converted]
              /\ last'.b_tokens = IF converted < 0 THEN -converted
                                  ELSE converted]_vars

\* an admin withdrawal whose refresh accrued fees, in a vault with two
\* depositors and a configured reward stream
C16_Witness ==
    /\ last.op = "admin_withdraw"
    /\ last.accrued # 0
    /\ \A u \in Users : shares[u] > 0
    /\ reward_token \in Tokens
    /\ reward_data[reward_token].exists

C18_LedgerNonNegative ==
    /\ vault.total_b_tokens >= 0
    /\ vault.total_shares >= 0
    /\ \A u \in Users : shares[u] >= 0
    /\ vault.b_rate >= 0
    /\ vault.last_update_timestamp >= 0
    /\ Refreshed.total_b_tokens >= 0
    /\ Refreshed.total_shares >= 0

\* a funded vault whose admin balance is negative while the other fields
\* are positive
C18_Witness ==
    /\ vault.admin_balance < 0
    /\ vault.total_b_tokens > 0
    /\ vault.total_shares > 0
    /\ \A u \in Users : shares[u] > 0

\* C19: in every execution in which the fee policy has never been FixedRate,
\* admin_balance is non-negative in every reachable state, stored and
\* refreshed.
C19_AdminBalanceNonNegativeWithoutFixedRate ==
    /\ fee.rate_type # 2
    /\ vault.admin_balance >= 0
    /\ Refreshed.admin_balance >= 0

\* the capped policy with the pool below its target, where the fixed policy
\* would charge the admin, in a funded vault whose admin balance is 0
C19_Witness ==
    /\ fee.rate_type = 1
    /\ pool_rate > vault.b_rate
    /\ b_token_diff(vault, fee, pool_rate, now) < 0
    /\ vault.admin_balance = 0
    /\ vault.total_shares > 0
    /\ vault.total_b_tokens > 0
    /\ now > vault.last_update_timestamp

ViewOps == {"get_vault", "get_b_tokens", "get_underlying_tokens", "get_underlying_admin_balance", "get_reward_data"}

\* C20: get_vault, get_b_tokens, get_underlying_tokens,
\* get_underlying_admin_balance and get_reward_data return values computed
\* from the state refreshed to the current pool rate and time (fees accrued,
\* reward index advanced) and leave every stored record unchanged; a deposit
\* or withdrawal made instead of the view stores the vault and the reward
\* data the views report.
C20_ViewsRefreshedAndPure ==
    [][/\ last'.op \in ViewOps =>
             LET v == update_rate(vault, fee, pool_rate, now)
                 u == last'.user
                 b_tokens == IF v.total_shares = 0 THEN shares[u]
                             ELSE div_floor(shares[u] * v.total_b_tokens,
                                            v.total_shares)
             IN  /\ UNCHANGED <<vault, fee, shares, pool_rate, now,
                                reward_token, reward_data, user_rewards>>
                 /\ CASE last'.op = "get_vault" ->
                            /\ last'.ret = v
                            /\ last'.ret.b_rate = pool_rate
                            /\ last'.ret.last_update_timestamp = now
                       [] last'.op = "get_b_tokens" ->
                            last'.ret = b_tokens
                       [] last'.op = "get_underlying_tokens" ->
                            last'.ret = div_floor(b_tokens * pool_rate,
                                                  SCALAR_12)
                       [] last'.op = "get_underlying_admin_balance" ->
                            last'.ret = div_floor(v.admin_balance * pool_rate,
                                                  SCALAR_12)
                       [] last'.op = "get_reward_data" ->
                            last'.ret = update_reward_data(reward_data,
                                            last'.token, v.total_shares,
                                            now)[last'.token]
       /\ last'.op \in {"deposit", "withdraw"} =>
             /\ vault'.b_rate = get_vault.b_rate
             /\ vault'.last_update_timestamp = get_vault.last_update_timestamp
             /\ vault'.admin_balance = get_vault.admin_balance
             /\ vault'.total_b_tokens + (IF last'.op = "withdraw" THEN last'.b_tokens ELSE -last'.b_tokens) = get_vault.total_b_tokens
             /\ (reward_token \in Tokens /\ reward_data[reward_token].exists) =>
                    reward_data'[reward_token] = get_reward_data(reward_token)]_vars

\* a view returned reward data whose index is ahead of the stored one, in a
\* state where the refreshed vault differs from the stored one
C20_Witness ==
    /\ last.op = "get_reward_data"
    /\ last.ret.exists
    /\ last.ret.index > reward_data[last.token].index
    /\ get_vault.admin_balance # vault.admin_balance
    /\ \E u \in Users : get_underlying_tokens(u) > get_b_tokens(u)

\* C21: for every reward token the stored reward index never decreases, and
\* a stored record is never removed: over touches from deposit and withdraw,
\* claims, boosts, expiry, a switch to another token and a later
\* re-activation.
C21_RewardIndexMonotone ==
    [][\A token \in Tokens :
          reward_data[token].exists =>
              /\ reward_data'[token].exists
              /\ reward_data'[token].index >= reward_data[token].index]_vars

\* the first token was re-activated after the second one ran: both records
\* hold an index above 0
C21_Witness ==
    /\ last.op = "set_rewards"
    /\ last.token = "tA"
    /\ reward_token = "tA"
    /\ reward_data["tA"].index > 0
    /\ reward_data["tB"].exists
    /\ reward_data["tB"].index > 0

\* the user's stored accrual and index for a token, 0 when nothing is stored
StoredAccrued(user, token) ==
    IF get_user_rewards(user_rewards, token, user).exists
    THEN get_user_rewards(user_rewards, token, user).accrued ELSE 0

StoredIndex(user, token) ==
    IF get_user_rewards(user_rewards, token, user).exists
    THEN get_user_rewards(user_rewards, token, user).index ELSE 0

\* C22: a deposit or withdraw advances the reward index with total_shares
\* as it was before the mint or burn and accrues to the caller on the share
\* balance held before it: minted shares earn nothing for the interval that
\* ends at the deposit, burned shares earn up to the withdraw; nobody else's
\* record changes.
C22_RewardsUseSharesBeforeChange ==
    [][(/\ last'.op \in {"deposit", "withdraw"}
        /\ reward_token \in Tokens
        /\ reward_data[reward_token].exists) =>
          LET u == last'.user
              d == reward_data[reward_token]
              end == IF now > d.expiration THEN d.expiration ELSE now
              index == IF end > d.last_time /\ vault.total_shares > 0
                       THEN d.index + div_floor((end - d.last_time) * d.eps
                                                  * SCALAR_7,
                                                vault.total_shares)
                       ELSE d.index
              mine == get_user_rewards(user_rewards', reward_token, u)
          IN  /\ reward_data'[reward_token].index = index
              /\ mine.exists
              /\ mine.index = index
              /\ mine.accrued = StoredAccrued(u, reward_token)
                     + div_floor(shares[u] * (index - StoredIndex(u, reward_token)),
                                 SCALAR_7)
              /\ \A k \in DOMAIN user_rewards :
                     k # <<reward_token, u>> =>
                         user_rewards'[k] = user_rewards[k]]_vars

\* a deposit by a user who held shares through a reward interval: the
\* accrual of that interval is stored, on fewer shares than the user has now
C22_Witness ==
    /\ last.op = "deposit"
    /\ reward_token \in Tokens
    /\ shares[last.user] > last.shares
    /\ get_user_rewards(user_rewards, reward_token, last.user).accrued > 0
    /\ get_user_rewards(user_rewards, reward_token, last.user).index = reward_data[reward_token].index
    /\ reward_data[reward_token].last_time = now
    /\ \E w \in Users : w # last.user /\ shares[w] > 0

\* what claim_rewards returns to the user in the current state
Claimed(user) ==
    claim_rewards(reward_token, reward_data, user_rewards,
                  vault.total_shares, user, shares[user], now)

\* the part of it that accrues in the claim itself
Accruing(user) == Claimed(user).amount - StoredAccrued(user, reward_token)

\* C23: two users who hold shares 3:1 and were last touched at the same
\* index are credited 3:1 by a touch at the same time, each rounded down by
\* less than one unit: the larger holder gets between 3 times the smaller
\* holder's accrual and 2 units more.
C23_RewardFairness ==
    \A u, w \in Users :
        (/\ reward_token \in Tokens
         /\ reward_data[reward_token].exists
         /\ shares[w] > 0
         /\ shares[u] = 3 * shares[w]
         /\ StoredIndex(u, reward_token) = StoredIndex(w, reward_token)) =>
            LET delta == Claimed(u).reward_data[reward_token].index
                             - StoredIndex(u, reward_token)
                au == Accruing(u)
                aw == Accruing(w)
            IN  /\ Claimed(u).err = "ok" /\ Claimed(w).err = "ok"
                /\ 3 * aw <= au
                /\ au <= 3 * aw + 2
                /\ au * SCALAR_7 <= shares[u] * delta
                /\ shares[u] * delta < (au + 1) * SCALAR_7
                /\ aw * SCALAR_7 <= shares[w] * delta
                /\ shares[w] * delta < (aw + 1) * SCALAR_7

\* shares 3:1, the same stored index, and accruals that are not exactly 3:1
C23_Witness ==
    \E u, w \in Users :
        /\ reward_token \in Tokens
        /\ reward_data[reward_token].exists
        /\ shares[w] > 0
        /\ shares[u] = 3 * shares[w]
        /\ StoredIndex(u, reward_token) = StoredIndex(w, reward_token)
        /\ get_user_rewards(user_rewards, reward_token, u).exists
        /\ get_user_rewards(user_rewards, reward_token, w).exists
        /\ Accruing(w) > 0
        /\ Accruing(u) > 3 * Accruing(w)

\* C24: claim_rewards returns the stored accrued amount plus the accrual up
\* to now, stores accrued = 0 and the current index for the user in the same
\* step, and transfers exactly the returned amount, in one transfer made
\* only when it is positive; a second claim by the same user with no time
\* elapsed returns 0 and transfers nothing.
C24_ClaimPaysAllOnce ==
    [][last'.op = "claim_rewards" =>
          LET u == last'.user
              d == reward_data[reward_token]
              end == IF now > d.expiration THEN d.expiration ELSE now
              index == IF end > d.last_time /\ vault.total_shares > 0
                       THEN d.index + div_floor((end - d.last_time) * d.eps
                                                  * SCALAR_7,
                                                vault.total_shares)
                       ELSE d.index
              unclaimed == StoredAccrued(u, reward_token)
                  + div_floor(shares[u] * (index - StoredIndex(u, reward_token)),
                              SCALAR_7)
          IN  /\ last'.b_tokens = unclaimed
              /\ get_user_rewards(user_rewards', reward_token, u)
                     = [exists |-> TRUE, index |-> index, accrued |-> 0]
              /\ reward_data'[reward_token].index = index
              /\ last'.transfers =
                     IF unclaimed > 0
                     THEN <<[token |-> reward_token, amount |-> unclaimed]>>
                     ELSE <<>>
              /\ LET again == claim_rewards(reward_token', reward_data',
                                            user_rewards',
                                            vault'.total_shares, u,
                                            shares'[u], now')
                 IN  /\ again.err = "ok"
                     /\ again.amount = 0
                     /\ again.transfers = <<>>
              /\ UNCHANGED <<vault, shares, reward_token>>]_vars

\* a claim that paid a holder, while the other holder's accrual stays stored
C24_Witness ==
    /\ last.op = "claim_rewards"
    /\ last.b_tokens > 0
    /\ Len(last.transfers) = 1
    /\ shares[last.user] > 0
    /\ \E w \in Users : w # last.user /\ StoredAccrued(w, reward_token) > 0

\* C25: claim_rewards fails with NoRewardsConfigured, changing no state and
\* transferring nothing, when no reward token has ever been configured, and
\* also when the stored reward token has no reward data; with a token and
\* its data stored it does not fail.
C25_ClaimNeedsConfiguredRewards ==
    \A u \in Users :
        /\ reward_token = "none" =>
               /\ Claimed(u).err = "NoRewardsConfigured"
               /\ \A token \in Tokens :
                      ~ENABLED (ClaimRewards(u, token) /\ vars' # vars)
        /\ \A rt \in Tokens \cup {"none"} :
               LET r == claim_rewards(rt, reward_data, user_rewards,
                                      vault.total_shares, u, shares[u], now)
               IN  IF rt \in Tokens /\ reward_data[rt].exists
                   THEN r.err = "ok"
                   ELSE /\ r.err = "NoRewardsConfigured"
                        /\ r.reward_data = reward_data
                        /\ r.user_rewards = user_rewards
                        /\ r.transfers = <<>>
                        /\ r.amount = 0

\* no reward token was ever configured, in a vault that has shares and
\* where time has passed
C25_Witness ==
    /\ reward_token = "none"
    /\ \A token \in Tokens : ~reward_data[token].exists
    /\ vault.total_shares > 0
    /\ now > 0
    /\ Claimed("u1").err = "NoRewardsConfigured"

\* C26: claim_rewards(user, reward_token, to) claims the rewards of the
\* token the caller passes: it succeeds only when rewards are configured for
\* that token, settles the user's record of that token and pays in that
\* token (the code settles and pays the active token).
C26_ClaimPaysRequestedToken ==
    [][last'.op = "claim_rewards" =>
          /\ reward_data[last'.token].exists
          /\ \A i \in 1..Len(last'.transfers) :
                 last'.transfers[i].token = last'.token
          /\ get_user_rewards(user_rewards', last'.token, last'.user).exists
          /\ get_user_rewards(user_rewards', last'.token, last'.user).accrued = 0]_vars

\* C27: set_rewards fails with InvalidRewardConfig, changing no reward
\* state, whenever expiration - now <= 0 (an expiration equal to now or in
\* the past) or the amount is <= 0, whatever the build does with the
\* unsigned subtraction.
C27_SetRewardsRejectsBadConfig ==
    \A token \in Tokens, a \in SetRewardAmounts, x \in SetRewardExpirations, wraps \in BOOLEAN :
        (x - now <= 0 \/ a <= 0) =>
            LET r == set_rewards(reward_token, reward_data,
                                 vault.total_shares, now, token, a, x, wraps)
            IN  /\ r.err = "InvalidRewardConfig"
                /\ r.reward_token = reward_token
                /\ r.reward_data = reward_data

\* a reward period is running: the active token's expiration is after now
Running ==
    /\ reward_token \in Tokens
    /\ reward_data[reward_token].exists
    /\ reward_data[reward_token].expiration > now

\* set_rewards refuses to replace or shorten a running period; for an
\* expiration before now the build with overflow checks stops earlier, in the
\* subtraction at the head of set_rewards
RunningPeriodProtected ==
    Running =>
        \A token \in Tokens, a \in SetRewardAmounts, x \in SetRewardExpirations, wraps \in BOOLEAN :
            (\/ token # reward_token
             \/ x < reward_data[reward_token].expiration) =>
                LET r == set_rewards(reward_token, reward_data,
                                     vault.total_shares, now, token, a, x,
                                     wraps)
                IN  /\ r.err = IF x < now /\ ~wraps THEN "ArithmeticPanic"
                                ELSE "InvalidRewardConfig"
                    /\ r.reward_token = reward_token
                    /\ r.reward_data = reward_data

AccruedIndex ==
    LET d == reward_data[reward_token]
    IN  d.index + IF now > d.last_time /\ d.eps > 0 /\ vault.total_shares > 0
                  THEN div_floor((now - d.last_time) * d.eps * SCALAR_7,
                                 vault.total_shares)
                  ELSE 0

\* C29: set_rewards for the active token of a running period with R seconds
\* left and rate eps0 stores eps = floor((new amount + R * eps0) / new
\* period), the new expiration and last_time = now, and keeps the index
\* accrued up to now; the active token and the other records do not change.
C29_BoostKeepsAccrual ==
    [][(last'.op = "set_rewards" /\ Running) =>
          LET d == reward_data[reward_token]
              R == d.expiration - now
              period == last'.arg - now
          IN  /\ last'.token = reward_token
              /\ reward_token' = reward_token
              /\ reward_data'[reward_token] =
                    [exists |-> TRUE,
                     eps |-> (last'.amount + R * d.eps) \div period,
                     expiration |-> last'.arg,
                     last_time |-> now,
                     index |-> AccruedIndex]
              /\ \A t \in Tokens \ {reward_token} :
                    reward_data'[t] = reward_data[t]]_vars

\* a boost made one second into a period that had accrued: the new rate 3
\* is floor((4 + 1 * 2) / 2), which no new period of amount 4 has
C29_Witness ==
    /\ last.op = "set_rewards"
    /\ last.token = "tA"
    /\ reward_token = "tA"
    /\ reward_data["tA"].eps = 3
    /\ reward_data["tA"].last_time = now
    /\ reward_data["tA"].index > 0

\* the index of a stored record brought up to now, or to its expiration if
\* that came first, over the stored total shares
FinalIndex(token) ==
    LET d == reward_data[token]
        until == IF now > d.expiration THEN d.expiration ELSE now
    IN  d.index + IF /\ d.last_time < d.expiration
                     /\ now > d.last_time
                     /\ d.eps > 0
                     /\ vault.total_shares > 0
                  THEN div_floor((until - d.last_time) * d.eps * SCALAR_7,
                                 vault.total_shares)
                  ELSE 0

\* C30: set_rewards called while no period is running makes the given token
\* the active one with eps = floor(amount / period), the given expiration,
\* last_time = now and the index of that token's own record brought up to
\* its expiration (0 without a record), not the index of the token active
\* before; that token's record stays stored with its rate and expiration
\* and its index brought up to its expiration.
C30_NewPeriodKeepsOwnIndex ==
    [][(last'.op = "set_rewards" /\ ~Running) =>
          LET token == last'.token
              period == last'.arg - now
          IN  /\ reward_token' = token
              /\ reward_data'[token] =
                    [exists |-> TRUE,
                     eps |-> last'.amount \div period,
                     expiration |-> last'.arg,
                     last_time |-> now,
                     index |-> IF reward_data[token].exists
                               THEN FinalIndex(token) ELSE 0]
              /\ \A prev \in Tokens \ {token} :
                    IF reward_data[prev].exists
                    THEN /\ reward_data'[prev].exists
                         /\ reward_data'[prev].eps = reward_data[prev].eps
                         /\ reward_data'[prev].expiration
                               = reward_data[prev].expiration
                         /\ reward_data'[prev].index
                               = IF prev = reward_token THEN FinalIndex(prev)
                                 ELSE reward_data[prev].index
                    ELSE reward_data'[prev] = reward_data[prev]]_vars

\* the first token is active again with its own index, which is smaller
\* than the index the second token reached while it was active
C30_Witness ==
    /\ last.op = "set_rewards"
    /\ last.token = "tA"
    /\ reward_token = "tA"
    /\ reward_data["tA"].last_time = now
    /\ reward_data["tA"].expiration > now
    /\ reward_data["tA"].index > 0
    /\ reward_data["tB"].exists
    /\ reward_data["tB"].index > reward_data["tA"].index

\* C31: set_rewards fails with InvalidRewardConfig, in the boost branch and
\* in the new-period branch, when the computed emission rate is <= 0 or
\* above the u64 maximum, and otherwise stores that rate; every stored
\* reward record has 1 <= eps <= u64 maximum.
C31_EpsWithinBounds ==
    /\ \A t \in Tokens :
          reward_data[t].exists =>
              /\ reward_data[t].eps >= 1
              /\ reward_data[t].eps <= U64_MAX
    /\ \A token \in Tokens, a \in EpsProbeAmounts, x \in EpsProbeExpirations, wraps \in BOOLEAN :
          LET r == set_rewards(reward_token, reward_data, vault.total_shares,
                               now, token, a, x, wraps)
              period == IF x >= now THEN x - now ELSE U64_MAX + 1 - (now - x)
              boost == /\ Running
                       /\ token = reward_token
                       /\ x >= reward_data[reward_token].expiration
              rate == IF boost
                      THEN (a + (reward_data[reward_token].expiration - now)
                                  * reward_data[reward_token].eps) \div period
                      ELSE a \div period
          IN  (/\ x > now \/ (x < now /\ wraps)
               /\ boost \/ ~Running) =>
                  IF rate <= 0 \/ rate > U64_MAX
                  THEN /\ r.err = "InvalidRewardConfig"
                       /\ r.reward_token = reward_token
                       /\ r.reward_data = reward_data
                  ELSE /\ r.err = "ok"
                       /\ r.reward_data[token].eps = rate

\* a running period with one second left at rate 1: a boost of 1 that
\* extends it to four seconds has rate floor(2 / 4) = 0 and is rejected, and
\* so is a boost of U64_MAX + 1 over the remaining second
C31_Witness ==
    /\ Running
    /\ reward_data[reward_token].eps = 1
    /\ reward_data[reward_token].expiration = now + 1
    /\ set_rewards(reward_token, reward_data, vault.total_shares, now,
                   reward_token, 1, MaxTime + 4, FALSE).err
          = "InvalidRewardConfig"
    /\ set_rewards(reward_token, reward_data, vault.total_shares, now,
                   reward_token, U64_MAX + 1, now + 1, FALSE).err
          = "InvalidRewardConfig"

\* C32: after a deposit, withdraw or claim_rewards made while a reward token
\* is configured, get_rewards(user, token) returns the record that the call
\* stored for the user and that token: it exists and holds the token's
\* current index.
C32_GetRewardsReturnsTouchedRecord ==
    [][(/\ last'.op \in {"deposit", "withdraw", "claim_rewards"}
        /\ reward_token \in Tokens
        /\ reward_data[reward_token].exists) =>
          /\ get_rewards(user_rewards', last'.user, reward_token).exists
          /\ get_rewards(user_rewards', last'.user, reward_token)
                = get_user_rewards(user_rewards', reward_token, last'.user)
          /\ get_rewards(user_rewards', last'.user, reward_token).index
                = reward_data'[reward_token].index]_vars

\* what a token has paid out and still owes: all claims paid plus all
\* stored accruals
Credited(user, token) == ledger.paid[<<user, token>>] + StoredAccrued(user, token)

\* C33: for each reward token, the amounts paid by claim_rewards plus the
\* stored unclaimed accruals of all users never exceed the amount of that
\* token moved into the vault by set_rewards.
C33_RewardsSolvent ==
    \A t \in Tokens :
        SumOver([u \in Users |-> Credited(u, t)], Users) <= ledger.funded[t]

\* C34: for every user and reward token, what the user was paid plus the
\* user's stored accrual never exceeds the emissions (eps times seconds) of
\* the seconds in which the user held shares while the token was emitting.
C34_CreditWithinHeldEmissions ==
    \A u \in Users, t \in Tokens :
        Credited(u, t) <= ledger.emitted[<<u, t>>]

\* C35: the lazy index update leaves the record unchanged when last_time >=
\* expiration, or now = last_time, or eps = 0, or total_shares = 0;
\* otherwise it adds floor((min(now, expiration) - last_time) * eps * 10^7 /
\* total_shares) to the index and sets last_time = now.  Applied again with
\* no time elapsed and the same total_shares it changes nothing.
C35_LazyIndexUpdate ==
    [][last'.op = "update_reward_data" =>
          LET d == reward_data[reward_token]
              d2 == reward_data'[reward_token]
              until == IF now > d.expiration THEN d.expiration ELSE now
          IN  /\ IF \/ d.last_time >= d.expiration
                    \/ now = d.last_time
                    \/ d.eps = 0
                    \/ vault.total_shares = 0
                 THEN d2 = d
                 ELSE d2 = [exists |-> TRUE, eps |-> d.eps,
                            expiration |-> d.expiration,
                            last_time |-> now,
                            index |-> d.index
                                + div_floor((until - d.last_time) * d.eps
                                              * SCALAR_7,
                                            vault.total_shares)]
              /\ update_reward_data(reward_data', reward_token',
                                    vault'.total_shares, now') = reward_data'
              /\ \A t \in Tokens \ {reward_token} :
                    reward_data'[t] = reward_data[t]]_vars

\* an update made after the expiration: the index grew by the emission up
\* to the expiration only, and last_time is now
C35_Witness ==
    /\ last.op = "update_reward_data"
    /\ reward_data["tA"].expiration < now
    /\ reward_data["tA"].last_time = now
    /\ reward_data["tA"].index > 7
    /\ vault.total_shares > 0

\* C36: the per-user update (1) with a record adds floor(user_shares *
\* (index - user index) / 10^7) to the accrual when the difference is
\* positive and nothing otherwise, and sets the user's index to the token's
\* index; (2) without a record and without shares creates {index, 0};
\* (3) without a record and with shares creates {index, floor(user_shares *
\* index / 10^7)}.
C36_UserRewardCases ==
    [][last'.op = "update_rewards" =>
          LET u == last'.user
              index == reward_data'[reward_token].index
              old == get_user_rewards(user_rewards, reward_token, u)
              new == get_user_rewards(user_rewards', reward_token, u)
          IN  /\ new.exists
              /\ new.index = index
              /\ new.accrued =
                    IF old.exists
                    THEN old.accrued
                           + IF index > old.index
                             THEN div_floor(shares[u] * (index - old.index),
                                            SCALAR_7)
                             ELSE 0
                    ELSE IF shares[u] = 0 THEN 0
                    ELSE div_floor(shares[u] * index, SCALAR_7)
              /\ \A k \in Address \X Address :
                    k # <<reward_token, u>> =>
                        user_rewards'[k] = user_rewards[k]]_vars

\* the holder's record after an update that added to the accrual
C36_Witness ==
    /\ last.op = "update_rewards"
    /\ get_user_rewards(user_rewards, "tA", "u1").exists
    /\ get_user_rewards(user_rewards, "tA", "u1").accrued > 3
    /\ get_user_rewards(user_rewards, "tA", "u1").index
          = reward_data["tA"].index
    /\ shares["u1"] > 0

\* C37: in every state reached through the entry points, every stored user
\* record belongs to a token with a reward record, and the user's index is
\* at most the token's stored index.
C37_UserIndexBehindTokenIndex ==
    \A u \in Users, t \in Tokens :
        get_user_rewards(user_rewards, t, u).exists =>
            /\ reward_data[t].exists
            /\ get_user_rewards(user_rewards, t, u).index
                  <= reward_data[t].index

\* the first token was replaced after the user's last touch: the user's
\* record for it is behind the index it was finalised at, and the user has
\* a record for the second token as well
C37_Witness ==
    /\ reward_token = "tB"
    /\ reward_data["tA"].exists
    /\ get_user_rewards(user_rewards, "tA", "u1").exists
    /\ get_user_rewards(user_rewards, "tB", "u1").exists
    /\ get_user_rewards(user_rewards, "tA", "u1").index > 0
    /\ get_user_rewards(user_rewards, "tA", "u1").index
          < reward_data["tA"].index

\* C38: a successful deposit or withdraw does not lower the b-tokens backing
\* each share: with positive total shares before and after,
\* total_b_tokens' * total_shares >= total_b_tokens * total_shares', both
\* against the vault as refreshed by the call and, when the pool rate is
\* the stored b_rate, against the stored vault; so the b-tokens a user's
\* unchanged share balance converts to do not drop.
C38_BackingPerShareKept ==
    [][last'.op \in {"deposit", "withdraw"} =>
          LET v == get_vault_updated
          IN  /\ (v.total_shares > 0 /\ vault'.total_shares > 0) =>
                    /\ vault'.total_b_tokens * v.total_shares
                          >= v.total_b_tokens * vault'.total_shares
                    /\ \A u \in Users \ {last'.user} :
                          /\ shares'[u] = shares[u]
                          /\ shares_to_b_tokens_down(vault', shares'[u])
                                >= shares_to_b_tokens_down(v, shares[u])
              /\ (/\ pool_rate = vault.b_rate
                   /\ vault.total_shares > 0
                   /\ vault'.total_shares > 0) =>
                    vault'.total_b_tokens * vault.total_shares
                      >= vault.total_b_tokens * vault'.total_shares]_vars

\* after a withdrawal by one holder the shares of the other holder are
\* backed by more than one b-token each
C38_Witness ==
    /\ last.op = "withdraw"
    /\ \E u \in Users \ {last.user} : shares[u] > 0
    /\ vault.total_shares > 0
    /\ vault.total_b_tokens > vault.total_shares

\* a refresh of a vault without b-tokens moves nothing to the admin,
\* whatever the fee policy, the pool rate and the time elapsed
EmptyVaultAccruesNothing ==
    vault.total_b_tokens = 0 =>
        \A rate \in EmptyVaultRates, delay \in EmptyVaultDelays :
            LET v == update_rate(vault, fee, rate, now + delay)
            IN  /\ v.admin_balance = vault.admin_balance
                /\ v.total_b_tokens = 0
                /\ v.total_shares = vault.total_shares

\* C39: when total_b_tokens is 0 a refresh accrues no admin fee under any
\* fee policy, however much the pool rate rose and however much time
\* passed: admin_balance and total_b_tokens stay as they are; a deposit
\* into the vault without b-tokens mints as many shares as the b-tokens it
\* credits.
C39_EmptyVaultNoFee ==
    /\ []EmptyVaultAccruesNothing
    /\ [][(last'.op = "deposit" /\ vault.total_b_tokens = 0) =>
              /\ last'.shares = last'.b_tokens
              /\ vault'.total_b_tokens = last'.b_tokens
              /\ vault'.total_shares = vault.total_shares + last'.b_tokens
              /\ vault'.admin_balance = vault.admin_balance]_vars

\* the first deposit, made under the capped or fixed policy after the pool
\* rate rose and time passed
C39_Witness ==
    /\ last.op = "deposit"
    /\ last.pre_fee.rate_type \in {1, 2}
    /\ last.pre_rate < vault.b_rate
    /\ last.elapsed > 0
    /\ vault.total_shares = last.shares
    /\ vault.total_b_tokens = last.b_tokens
    /\ last.shares = last.b_tokens

\* the b-tokens moved to the admin are at most the exact excess of the pool
\* rate over the target b_rate * (1 + rate * elapsed / year), in b-tokens
WithinExactExcess(v, f, new_rate, t) ==
    LET elapsed == t - v.last_update_timestamp
        year == SCALAR_12 * SECONDS_PER_YEAR
    IN  b_token_diff(v, f, new_rate, t) * new_rate * year
          <= v.total_b_tokens
               * (new_rate * year
                    - v.b_rate * (year + APR_TO_12 * f.rate * elapsed))

\* C40: under the capped and the fixed policy target_growth is 10^12 +
\* rate * 10^5 * elapsed / seconds per year rounded up, target_rate is
\* b_rate * target_growth / 10^12 rounded up, and diff = total_b_tokens *
\* (pool_rate - target_rate) / pool_rate is rounded down, so the admin is
\* never given more than the exact excess over the target.
C40_TargetRoundedUp ==
    fee.rate_type \in {1, 2} =>
        \A new_rate \in EmptyVaultRates, delay \in EmptyVaultDelays :
            LET t == now + delay
                elapsed == t - vault.last_update_timestamp
                growth == target_growth_rate(fee, elapsed)
            IN  /\ growth = div_ceil(APR_TO_12 * fee.rate * elapsed,
                                     SECONDS_PER_YEAR) + SCALAR_12
                /\ target_b_rate(vault, fee, t)
                      = div_ceil(vault.b_rate * growth, SCALAR_12)
                /\ b_token_diff(vault, fee, new_rate, t)
                      = div_floor(
                            div_floor(vault.total_b_tokens
                                        * (new_rate - target_b_rate(vault, fee, t)),
                                      SCALAR_12) * SCALAR_12,
                            new_rate)
                /\ WithinExactExcess(vault, fee, new_rate, t)

====
